---- MODULE Spec2Model ----
(***************************************************************************)
(* Model of the schema-registry code generators:                           *)
(*   src/src/generators/python/generator.py   (PythonGenerator)            *)
(*   src/scripts/generate_typescript.py       (generate_typescript_bindings)*)
(* and of the behaviour of the code they emit (Python marshaller classes   *)
(* over pydantic models, TypeScript Marshaller/Unmarshaller over Zod).     *)
(*                                                                         *)
(* Emitted source text is modelled as abstract syntax: one record per      *)
(* emitted class, method, field or schema expression, in emission order.   *)
(* The emitted code is then run by interpreting that abstract syntax.      *)
(***************************************************************************)
EXTENDS Integers, Sequences, FiniteSets, TLC

VARIABLES
    doc,        \* the schema document on disk (the generators' input)
    pyPc,       \* PythonGenerator: the next step of main()
    pyDir,      \* generated/python: file name -> emitted content
    pySteps,    \* PythonGenerator: the steps executed so far, in order
    pyErr,      \* PythonGenerator: the exception that ended the run ("" if none)
    tsPc,       \* generate_typescript_bindings: the next step
    tsDir,      \* generated/typescript: file name -> emitted content
    tsSteps,    \* generate_typescript_bindings: the steps executed so far
    tsPending,  \* the nodes generate_zod_schema has still to map for validator.ts
    snapshot,   \* the artifacts of the previous run, kept while the generators run again
    lib,        \* the library functions the emitted code calls, as installed
    tsErr,      \* generate_typescript_bindings: the exception that ended the run
    call,       \* the last call made into the emitted code, with its outcome
    rival       \* a second PythonGenerator run on generated/python: its document and step

vars == <<doc, pyPc, pyDir, pySteps, pyErr, tsPc, tsDir, tsSteps, tsPending, tsErr,
          call, snapshot, lib, rival>>

(***************************************************************************)
(* Bounds of the model.                                                    *)
(***************************************************************************)
MaxArrayLen == 1    \* longest array in a payload or an entity value
MaxDepth == 2       \* deepest nesting of entities in a payload or value
MaxPending == 4     \* most nodes generate_zod_schema has pending at once

Range(s) == {s[i] : i \in DOMAIN s}

(***************************************************************************)
(* The schema document (OpenAPI YAML as loaded by yaml.safe_load).         *)
(* A property schema is a mapping; the keys the generators read are its    *)
(* fields here, "" / <<>> / FALSE standing for an absent key.              *)
(***************************************************************************)
Schema(type, ref, itemsType, itemsRef, enum, hasMinimum, minimum, format) ==
    [type |-> type, ref |-> ref, itemsType |-> itemsType, itemsRef |-> itemsRef,
     enum |-> enum, hasMinimum |-> hasMinimum, minimum |-> minimum,
     format |-> format,
     pattern |-> "", hasMaximum |-> FALSE, maximum |-> 0, hasDefault |-> FALSE]

\* The same node with a `default`, a `pattern`, a `maximum`.
WithDefault(s) == [s EXCEPT !.hasDefault = TRUE]
WithPattern(s, pattern) == [s EXCEPT !.pattern = pattern]
WithMaximum(s, maximum) == [s EXCEPT !.hasMaximum = TRUE, !.maximum = maximum]

SString == Schema("string", "", "", "", <<>>, FALSE, 0, "")
SEnum == Schema("string", "", "", "", <<"A", "B">>, FALSE, 0, "")
SInteger == Schema("integer", "", "", "", <<>>, TRUE, 0, "")
SPlainInteger == Schema("integer", "", "", "", <<>>, FALSE, 0, "")
SDateTime == Schema("string", "", "", "", <<>>, FALSE, 0, "date-time")
\* A string with a pattern, an enum and a format; an integer with both bounds.
SConstrainedDate ==
    WithPattern(Schema("string", "", "", "", <<"2024-01-15", "2024-13-40", "2023-01-15">>,
                       FALSE, 0, "date"), "^2024-")
SBoundedInteger == WithMaximum(SInteger, 10)
SDate == Schema("string", "", "", "", <<>>, FALSE, 0, "date")
SRef(n) == Schema("", n, "", "", <<>>, FALSE, 0, "")
SArrayOfRef(n) == Schema("array", "", "", n, <<>>, FALSE, 0, "")
SArrayOfString == Schema("array", "", "string", "", <<>>, FALSE, 0, "")

Prop(name, schema) == [name |-> name, schema |-> schema]

\* One entry of components.schemas: properties in declaration order.
Entity(name, properties, required) ==
    [name |-> name, type |-> "object", properties |-> properties,
     required |-> required]

\* file: whether the schema file can be opened and parsed;
\* components / schemasKey: whether the document has those keys.
Document(file, components, schemasKey, schemas) ==
    [file |-> file, components |-> components, schemasKey |-> schemasKey,
     schemas |-> schemas]

HasSchemasSection(d) == d.components /\ d.schemasKey

Names(d) == {d.schemas[i].name : i \in DOMAIN d.schemas}

EntityOf(d, n) == d.schemas[CHOOSE i \in DOMAIN d.schemas : d.schemas[i].name = n]

PropNames(e) == {e.properties[i].name : i \in DOMAIN e.properties}

HasRef(s) == s.ref # ""
HasItemsRef(s) == s.type = "array" /\ s.itemsRef # ""

\* The names a property refers to ($ref of the property or of its items).
RefTargets(e) ==
    {e.properties[i].schema.ref : i \in {j \in DOMAIN e.properties : HasRef(e.properties[j].schema)}}
    \cup
    {e.properties[i].schema.itemsRef : i \in {j \in DOMAIN e.properties : HasItemsRef(e.properties[j].schema)}}

Dangling(d) == \E i \in DOMAIN d.schemas : ~(RefTargets(d.schemas[i]) \subseteq Names(d))

(***************************************************************************)
(* The documents the model is run on.  A referenced ("leaf") entity and a  *)
(* referencing ("root") entity, every leaf shape with every root shape, in *)
(* both declaration orders; and the documents the loaders reject.          *)
(***************************************************************************)
LeafShapes ==
    { [properties |-> <<>>, required |-> {}],
      [properties |-> <<Prop("billId", SString)>>, required |-> {"billId"}],
      [properties |-> <<Prop("billId", SString), Prop("billDate", SDate)>>,
       required |-> {"billId"}],
      [properties |-> <<Prop("billStatus", SEnum), Prop("amountInCents", SInteger)>>,
       required |-> {"billStatus", "amountInCents"}],
      [properties |-> <<Prop("note", SString)>>, required |-> {}] }

\* An optional or required `eventId` followed by a reference or an array of
\* references, each required or not; a reference under the name `lineItems`;
\* a reference to a name the document does not declare; an array of strings.
RootShapes(leaf) ==
    { [properties |-> <<Prop("eventId", SString), link>>, required |-> req] :
        <<link, req>> \in
            ({Prop("bill", SRef(leaf))} \X SUBSET {"eventId", "bill"})
            \cup ({Prop("items", SArrayOfRef(leaf))} \X SUBSET {"eventId", "items"}) }
    \cup
    { [properties |-> <<Prop("lineItems", SRef(leaf))>>, required |-> {"lineItems"}],
      [properties |-> <<Prop("bill", SRef("Ghost"))>>, required |-> {"bill"}],
      [properties |-> <<Prop("tags", SArrayOfString)>>, required |-> {}] }

LeafName == "Bill"
RootNames == {"BillEvent", "OrderEvent"}

GoodDocuments ==
    { Document(TRUE, TRUE, TRUE, order) :
        order \in UNION { { <<Entity(LeafName, l.properties, l.required),
                              Entity(rn, r.properties, r.required)>>,
                            <<Entity(rn, r.properties, r.required),
                              Entity(LeafName, l.properties, l.required)>> } :
                          <<l, r, rn>> \in LeafShapes \X RootShapes(LeafName) \X RootNames } }

RejectedDocuments ==
    { Document(FALSE, FALSE, FALSE, <<>>),     \* file missing or not YAML
      Document(TRUE, FALSE, FALSE, <<>>),      \* no `components`
      Document(TRUE, TRUE, FALSE, <<>>),       \* `components` without `schemas`
      Document(TRUE, TRUE, TRUE, <<>>) }       \* `schemas` present and empty

\* The document of the end-to-end example: Bill{billId, amountInCents},
\* BillEvent{bill: $ref Bill}, everything required.
ExampleDocument ==
    Document(TRUE, TRUE, TRUE,
             <<Entity("Bill", <<Prop("billId", SString), Prop("amountInCents", SPlainInteger)>>,
                      {"billId", "amountInCents"}),
               Entity("BillEvent", <<Prop("bill", SRef("Bill"))>>, {"bill"})>>)

\* Properties with a `default`, one required and one not.
DefaultsDocument ==
    Document(TRUE, TRUE, TRUE,
             <<Entity("Bill", <<Prop("billId", WithDefault(SString)),
                                Prop("note", WithDefault(SString))>>, {"billId"}),
               Entity("BillEvent", <<Prop("bill", SRef("Bill"))>>, {"bill"})>>)

\* Entity names that are not among the names model_order lists.
OtherNamesDocument ==
    Document(TRUE, TRUE, TRUE,
             <<Entity("Invoice", <<Prop("invoiceId", SString), Prop("note", SString)>>,
                      {"invoiceId"}),
               Entity("InvoiceEvent", <<Prop("invoice", SRef("Invoice"))>>, {"invoice"})>>)

\* Properties that yield several validation rules each.
ConstrainedDocument ==
    Document(TRUE, TRUE, TRUE,
             <<Entity("Bill", <<Prop("billDate", SConstrainedDate),
                                Prop("amountInCents", SBoundedInteger)>>, {"billDate"}),
               Entity("BillEvent", <<Prop("bill", SRef("Bill"))>>, {"bill"})>>)

\* A property with format date-time.
TimestampDocument ==
    Document(TRUE, TRUE, TRUE,
             <<Entity("Bill", <<Prop("billId", SString), Prop("createdAt", SDateTime)>>,
                      {"billId"}),
               Entity("BillEvent", <<Prop("bill", SRef("Bill"))>>, {"bill"})>>)

\* References that form a cycle, a reference of an entity to itself, and a
\* reference to an entity declared later.
CyclicDocument ==
    Document(TRUE, TRUE, TRUE,
             <<Entity("Bill", <<Prop("billId", SString), Prop("event", SRef("BillEvent"))>>,
                      {"billId"}),
               Entity("BillEvent", <<Prop("bill", SRef("Bill"))>>, {"bill"})>>)
SelfReferenceDocument ==
    Document(TRUE, TRUE, TRUE,
             <<Entity("Bill", <<Prop("billId", SString), Prop("parent", SRef("Bill"))>>,
                      {"billId"}),
               Entity("BillEvent", <<Prop("bill", SRef("Bill"))>>, {"bill"})>>)
ForwardDocument ==
    Document(TRUE, TRUE, TRUE,
             <<Entity("BillEvent", <<Prop("bill", SRef("Bill"))>>, {"bill"}),
               Entity("Bill", <<Prop("billId", SString)>>, {"billId"})>>)

SpecialDocuments ==
    {ExampleDocument, DefaultsDocument, OtherNamesDocument, ConstrainedDocument,
     TimestampDocument, CyclicDocument, SelfReferenceDocument, ForwardDocument}

Documents == GoodDocuments \cup RejectedDocuments \cup SpecialDocuments

(***************************************************************************)
(* Results of operations that may raise: Ok(v) or Raise(exception).        *)
(***************************************************************************)
Ok(v) == [ok |-> TRUE, val |-> v]
Raise(e) == [ok |-> FALSE, err |-> e, fields |-> {}]
\* An exception that names schema fields (pydantic ValidationError, KeyError).
RaiseAt(e, fs) == [ok |-> FALSE, err |-> e, fields |-> fs]

RECURSIVE Flatten(_)
Flatten(ss) == IF ss = <<>> THEN <<>> ELSE Head(ss) \o Flatten(Tail(ss))

(***************************************************************************)
(* PythonGenerator: loading.                                               *)
(***************************************************************************)
\* validate_spec accepting every loaded document.
validate_spec_accepting(spec) == TRUE

\* validate_spec: TRUE when it returns, FALSE when it raises ValueError.
validate_spec(spec) == ~(~spec.components \/ ~spec.schemasKey)

\* initialize: the try block (open, yaml.safe_load, validate_spec); any
\* exception is caught and turned into sys.exit(1).
initialize(d) == IF d.file /\ validate_spec(d) THEN Ok(d) ELSE Raise("SystemExit")

\* self.schema.get('components', {}).get('schemas', {})
SchemasOrEmpty(d) == IF d.components /\ d.schemasKey THEN d.schemas ELSE <<>>

(***************************************************************************)
(* PythonGenerator: models.py.                                             *)
(***************************************************************************)
_map_type(type_name) ==
    CASE type_name = "string" -> "str"
      [] type_name = "integer" -> "int"
      [] type_name = "number" -> "float"
      [] type_name = "boolean" -> "bool"
      [] type_name = "array" -> "list"
      [] type_name = "object" -> "dict"
      [] OTHER -> "Any"

\* A type annotation of models.py: k = "ref" (a class name), "listref"
\* (List[<class name>]), "list" (List[<builtin>]) or "prim" (a builtin).
PyType(k, n) == [k |-> k, n |-> n]

\* _generate_model, "Determine property type".
PropertyType(prop_schema) ==
    IF HasRef(prop_schema) THEN PyType("ref", prop_schema.ref)
    ELSE IF prop_schema.type = "array"
         THEN IF prop_schema.itemsRef # ""
              THEN PyType("listref", prop_schema.itemsRef)
              ELSE PyType("list", _map_type(IF prop_schema.itemsType = "" THEN "Any"
                                            ELSE prop_schema.itemsType))
         ELSE PyType("prim", _map_type(IF prop_schema.type = "" THEN "string"
                                       ELSE prop_schema.type))

\* _generate_model, "Add property definition": `name: T` when the property is
\* in `required`, `name: Optional[T] = None` (False for bool) otherwise.
FieldDecl(p, required) ==
    LET t == PropertyType(p.schema)
    IN  [name |-> p.name, type |-> t, optional |-> ~(p.name \in required),
         default |-> IF p.name \in required THEN ""
                     ELSE IF t = PyType("prim", "bool") THEN "False" ELSE "None"]

\* _generate_model, "Add field validators for date fields".
DateValidators(e) ==
    {e.properties[i].name : i \in {j \in DOMAIN e.properties :
                                     e.properties[j].schema.format = "date"}}

ClassDecl(e) ==
    [name |-> e.name,
     fields |-> [i \in DOMAIN e.properties |-> FieldDecl(e.properties[i], e.required)],
     validators |-> DateValidators(e)]

\* _generate_model(name, schema): its loop rebinds name and schema to every
\* entry of the document, so each call emits a class for every entity.
_generate_model(d, name, schema) ==
    [i \in DOMAIN d.schemas |-> ClassDecl(d.schemas[i])]

model_order == <<"Bill", "Project", "LineItem", "Approval", "Metadata", "BillEvent">>

\* _generate_models: the class declarations of models.py, in file order.
_generate_models(d) ==
    IF SchemasOrEmpty(d) = <<>> THEN Raise("ValueError")
    ELSE Ok(Flatten([k \in DOMAIN model_order |->
                        IF model_order[k] \in Names(d)
                        THEN _generate_model(d, model_order[k], EntityOf(d, model_order[k]))
                        ELSE <<>>]))

(***************************************************************************)
(* PythonGenerator: the template context (_process_schema).                *)
(***************************************************************************)
\* type_map.get(schema.get('type', 'string'), 'Any') of _get_python_type.
type_map(type_name) ==
    CASE type_name = "" -> "str"
      [] type_name = "string" -> "str"
      [] type_name = "integer" -> "int"
      [] type_name = "number" -> "float"
      [] type_name = "boolean" -> "bool"
      [] type_name = "array" -> "List"
      [] type_name = "object" -> "Dict[str, Any]"
      [] OTHER -> "Any"

\* _get_python_type(schema, prop_name, required_fields) as _process_schema
\* calls it.  The items of an array are mapped from their `type` alone
\* (`string` when they have none); the result is wrapped in Optional[...]
\* when prop_name is not in required_fields.
_get_python_type(schema, prop_name, required_fields) ==
    LET base_type == IF schema.type = "array"
                     THEN PyType("list", type_map(schema.itemsType))
                     ELSE PyType("prim", type_map(schema.type))
    IN  [type |-> base_type, optional |-> ~(prop_name \in required_fields)]

\* The `validations` a property adds, in the order _process_schema appends
\* them: pattern, enum, minimum, maximum, format.
Validation(field, rule) == [field |-> field, rule |-> rule]

\* The rules appended with the format rule first.
ValidationsOf_formatFirst(p) ==
    (IF p.schema.format \in {"date-time", "date"}
     THEN <<Validation(p.name, p.schema.format)>> ELSE <<>>)
    \o (IF p.schema.pattern # "" THEN <<Validation(p.name, "pattern")>> ELSE <<>>)
    \o (IF p.schema.enum # <<>> THEN <<Validation(p.name, "enum")>> ELSE <<>>)
    \o (IF p.schema.type \in {"integer", "number"} /\ p.schema.hasMinimum
        THEN <<Validation(p.name, "minimum")>> ELSE <<>>)
    \o (IF p.schema.type \in {"integer", "number"} /\ p.schema.hasMaximum
        THEN <<Validation(p.name, "maximum")>> ELSE <<>>)

ValidationsOf(p) ==
    (IF p.schema.pattern # "" THEN <<Validation(p.name, "pattern")>> ELSE <<>>)
    \o (IF p.schema.enum # <<>> THEN <<Validation(p.name, "enum")>> ELSE <<>>)
    \o (IF p.schema.type \in {"integer", "number"} /\ p.schema.hasMinimum
        THEN <<Validation(p.name, "minimum")>> ELSE <<>>)
    \o (IF p.schema.type \in {"integer", "number"} /\ p.schema.hasMaximum
        THEN <<Validation(p.name, "maximum")>> ELSE <<>>)
    \o (IF p.schema.format \in {"date-time", "date"}
        THEN <<Validation(p.name, p.schema.format)>> ELSE <<>>)

\* One entry of a model's `properties` in the context.
ContextProperty(p, required) ==
    [name |-> p.name,
     type |-> IF HasRef(p.schema)
              THEN [type |-> PyType("ref", p.schema.ref), optional |-> FALSE]
              ELSE _get_python_type(p.schema, p.name, required),
     required |-> p.name \in required,
     hasDefault |-> p.schema.hasDefault]

\* _process_schema: the `models` of the context handed to the templates.
_process_schema(d) ==
    [i \in DOMAIN SchemasOrEmpty(d) |->
        [name |-> d.schemas[i].name,
         properties |-> [j \in DOMAIN d.schemas[i].properties |->
                           ContextProperty(d.schemas[i].properties[j], d.schemas[i].required)],
         validations |-> Flatten([j \in DOMAIN d.schemas[i].properties |->
                                    ValidationsOf(d.schemas[i].properties[j])]),
         required |-> d.schemas[i].required]]

(***************************************************************************)
(* PythonGenerator: event_bridge_publisher.py, event_bridge_consumer.py.   *)
(***************************************************************************)
_get_root_model_name(d) ==
    IF SchemasOrEmpty(d) = <<>> THEN Raise("ValueError") ELSE Ok(d.schemas[1].name)

_generate_event_publisher(d) ==
    LET root == _get_root_model_name(d)
    IN  IF root.ok THEN Ok([kind |-> "event_publisher", root |-> root.val]) ELSE root

_generate_event_consumer(d) ==
    LET root == _get_root_model_name(d)
    IN  IF root.ok THEN Ok([kind |-> "event_consumer", root |-> root.val]) ELSE root

(***************************************************************************)
(* PythonGenerator: the wrappers around the marshaller.  A wrapper is the  *)
(* method that converts (to_dict or from_dict of <root>Marshaller) and     *)
(* what its except clause does when the conversion raises:                 *)
(*   "raise":  print the message and re-raise (or no try at all)           *)
(*   "wrap":   raise ValidationError(...)                                  *)
(*   "return": print the message and return None                          *)
(***************************************************************************)
Wrapper(emitter, method, converts, root, on_exception) ==
    [emitter |-> emitter, method |-> method, converts |-> converts, root |-> root,
     on_exception |-> on_exception]

\* publish of event_bridge_publisher.py; handle_event of event_bridge_consumer.py.
EventPublisherWrapper(artifact) ==
    Wrapper("_generate_event_publisher", "publish", "to_dict", artifact.root, "raise")
EventConsumerWrapper(artifact) ==
    Wrapper("_generate_event_consumer", "handle_event", "from_dict", artifact.root, "raise")

\* The emitters generate() does not call: BillEventPublisher.publish,
\* BillEventConsumer.parse_event, Validator.validate_event.
_generate_publisher == Wrapper("_generate_publisher", "publish", "to_dict", "BillEvent", "raise")
_generate_consumer ==
    Wrapper("_generate_consumer", "parse_event", "from_dict", "BillEvent", "return")
_generate_validator ==
    Wrapper("_generate_validator", "validate_event", "from_dict", "BillEvent", "wrap")

(***************************************************************************)
(* PythonGenerator: marshaller.py.  One <Name>Marshaller class per entity, *)
(* with one keyword argument of from_dict and one key of to_dict per       *)
(* property.  how = "one":   <Ref>Marshaller.from_dict(data["p"])          *)
(*                           <Ref>Marshaller.to_dict(obj.p)                *)
(*       how = "each":  [<Ref>Marshaller.from_dict(i) for i in data.get("p", [])] *)
(*                      [<Ref>Marshaller.to_dict(x) for x in obj.p]        *)
(*       how = "plain": data.get("p")  /  obj.p                            *)
(***************************************************************************)
\* Every property copied as it is, a reference like a scalar.
MarshalArg_noDelegation(p) == [prop |-> p.name, how |-> "plain", ref |-> ""]

MarshalArg(p) ==
    IF HasRef(p.schema)
    THEN IF p.name = "lineItems"
         THEN [prop |-> p.name, how |-> "each", ref |-> p.schema.ref]
         ELSE [prop |-> p.name, how |-> "one", ref |-> p.schema.ref]
    ELSE IF p.schema.type = "array" /\ p.schema.itemsRef # ""
         THEN [prop |-> p.name, how |-> "each", ref |-> p.schema.itemsRef]
         ELSE [prop |-> p.name, how |-> "plain", ref |-> ""]

MarshallerClass(e) ==
    [name |-> e.name,
     from_dict |-> [i \in DOMAIN e.properties |-> MarshalArg(e.properties[i])],
     to_dict |-> [i \in DOMAIN e.properties |-> MarshalArg(e.properties[i])]]

\* last_prop = list(properties.keys())[-1] raises IndexError for an entity
\* without properties.
_generate_marshaller(d) ==
    IF \E i \in DOMAIN d.schemas : d.schemas[i].properties = <<>>
    THEN Raise("IndexError")
    ELSE Ok([i \in DOMAIN d.schemas |-> MarshallerClass(d.schemas[i])])

(***************************************************************************)
(* Values.  The wire format is a JSON-compatible mapping; native Python    *)
(* values are the same scalars and lists, None, and model instances.       *)
(***************************************************************************)
Null == [t |-> "null"]                       \* None / JSON null
StrV(s) == [t |-> "str", s |-> s]
IntV(n) == [t |-> "int", n |-> n]
List(q) == [t |-> "list", items |-> q]
Dict(kv) == [t |-> "dict", kv |-> kv]        \* kv: a function from keys
Inst(cls, fields) == [t |-> "inst", cls |-> cls, fields |-> fields]
EmptyKV == [k \in {} |-> Null]

\* Python truth value, as tested by `if not data`.
Truthy(v) ==
    CASE v.t = "null" -> FALSE
      [] v.t = "str" -> v.s # ""
      [] v.t = "int" -> v.n # 0
      [] v.t = "list" -> v.items # <<>>
      [] v.t = "dict" -> DOMAIN v.kv # {}
      [] v.t = "inst" -> TRUE

(***************************************************************************)
(* Text.  The characters of the strings the model uses, and the parsers    *)
(* the emitted validators call on them.                                    *)
(***************************************************************************)
Chars(s) ==
    CASE s = "A" ->
            <<"A">>
      [] s = "B" ->
            <<"B">>
      [] s = "Z" ->
            <<"Z">>
      [] s = "B1" ->
            <<"B", "1">>
      [] s = "2024-01-15" ->
            <<"2", "0", "2", "4", "-", "0", "1", "-", "1", "5">>
      [] s = "2024-13-40" ->
            <<"2", "0", "2", "4", "-", "1", "3", "-", "4", "0">>
      [] s = "2024-1-5" ->
            <<"2", "0", "2", "4", "-", "1", "-", "5">>
      [] s = "2024-01-15x" ->
            <<"2", "0", "2", "4", "-", "0", "1", "-", "1", "5", "x">>
      [] s = "2024-02-30" ->
            <<"2", "0", "2", "4", "-", "0", "2", "-", "3", "0">>
      [] s = "2023-01-15" ->
            <<"2", "0", "2", "3", "-", "0", "1", "-", "1", "5">>
      [] s = "2024-01-15T10:00:00Z" ->
            <<"2", "0", "2", "4", "-", "0", "1", "-", "1", "5", "T", "1", "0", ":", "0", "0", ":", "0", "0", "Z">>
      [] s = "2024-01-15 10:00:00" ->
            <<"2", "0", "2", "4", "-", "0", "1", "-", "1", "5", " ", "1", "0", ":", "0", "0", ":", "0", "0">>
      [] s = "2024-01-15T10:00:00" ->
            <<"2", "0", "2", "4", "-", "0", "1", "-", "1", "5", "T", "1", "0", ":", "0", "0", ":", "0", "0">>
      [] s = "2024-01-15T10:00:00+02:00" ->
            <<"2", "0", "2", "4", "-", "0", "1", "-", "1", "5", "T", "1", "0", ":", "0", "0", ":", "0", "0", "+", "0", "2", ":", "0", "0">>
      [] s = "a@b.co" ->
            <<"a", "@", "b", ".", "c", "o">>
      [] s = "{not json" ->
            <<"{", "n", "o", "t", " ", "j", "s", "o", "n">>
      [] s = "^2024-" ->
            <<"^", "2", "0", "2", "4", "-">>
      [] OTHER -> <<>>

Digits == {"0", "1", "2", "3", "4", "5", "6", "7", "8", "9"}
DigitValue(c) ==
    CASE c = "0" -> 0 [] c = "1" -> 1 [] c = "2" -> 2 [] c = "3" -> 3 [] c = "4" -> 4
      [] c = "5" -> 5 [] c = "6" -> 6 [] c = "7" -> 7 [] c = "8" -> 8 [] c = "9" -> 9

\* The number written by the n characters of cs from position i, as the set
\* {<<value, next position>>}; empty when they are not n digits.
NumberAt(cs, i, n) ==
    IF i + n - 1 <= Len(cs) /\ \A k \in i..(i + n - 1) : cs[k] \in Digits
    THEN {<<IF n = 1 THEN DigitValue(cs[i])
            ELSE IF n = 2 THEN 10 * DigitValue(cs[i]) + DigitValue(cs[i + 1])
            ELSE 1000 * DigitValue(cs[i]) + 100 * DigitValue(cs[i + 1])
                 + 10 * DigitValue(cs[i + 2]) + DigitValue(cs[i + 3]),
            i + n>>}
    ELSE {}

\* A literal character c at position i.
LiteralAt(cs, i, c) == i <= Len(cs) /\ cs[i] = c

IsLeap(y) == (y % 4 = 0 /\ y % 100 # 0) \/ y % 400 = 0
DaysIn(y, m) ==
    IF m = 2 THEN (IF IsLeap(y) THEN 29 ELSE 28)
    ELSE IF m \in {4, 6, 9, 11} THEN 30 ELSE 31
IsDate(y, m, d) == y >= 1 /\ m \in 1..12 /\ d >= 1 /\ d <= DaysIn(y, m)

\* The directives of _strptime: %Y is four digits; %m and %d are one or two
\* digits within 1..12 and 1..31.
Directive_m(cs, i) ==
    {p \in NumberAt(cs, i, 2) \cup NumberAt(cs, i, 1) : p[1] \in 1..12}
Directive_d(cs, i) ==
    {p \in NumberAt(cs, i, 2) \cup NumberAt(cs, i, 1) : p[1] \in 1..31}

\* datetime.strptime(v, "%Y-%m-%d"): TRUE when it returns, FALSE when it
\* raises ValueError (no match, unconverted data remains, or day out of range
\* for the month).
strptime_Ymd(s) ==
    LET cs == Chars(s)
    IN  \E y \in NumberAt(cs, 1, 4) :
           /\ LiteralAt(cs, y[2], "-")
           /\ \E m \in Directive_m(cs, y[2] + 1) :
                 /\ LiteralAt(cs, m[2], "-")
                 /\ \E d \in Directive_d(cs, m[2] + 1) :
                       d[2] = Len(cs) + 1 /\ IsDate(y[1], m[1], d[1])

\* The time part HH:MM:SS from position i; the position after it.
TimeAt(cs, i) ==
    {s[2] : s \in
       {s \in UNION {UNION {NumberAt(cs, mi[2] + 1, 2) :
                               mi \in {mi \in NumberAt(cs, h[2] + 1, 2) :
                                          mi[1] < 60 /\ LiteralAt(cs, h[2], ":")
                                          /\ LiteralAt(cs, mi[2], ":")}} :
                      h \in {h \in NumberAt(cs, i, 2) : h[1] < 24}} :
          s[1] < 60}}

\* A UTC offset +HH:MM or -HH:MM from position i up to the end.
OffsetAt(cs, i) ==
    /\ i <= Len(cs) /\ cs[i] \in {"+", "-"}
    /\ \E h \in NumberAt(cs, i + 1, 2) :
          /\ h[1] < 24 /\ LiteralAt(cs, h[2], ":")
          /\ \E mi \in NumberAt(cs, h[2] + 1, 2) : mi[1] < 60 /\ mi[2] = Len(cs) + 1

\* The date YYYY-MM-DD at the start; the position after it.
IsoDateAt(cs) ==
    {d[2] : d \in
       UNION {UNION {{d \in NumberAt(cs, m[2] + 1, 2) : IsDate(y[1], m[1], d[1])} :
                       m \in {m \in NumberAt(cs, y[2] + 1, 2) :
                                 LiteralAt(cs, y[2], "-") /\ LiteralAt(cs, m[2], "-")}} :
              y \in NumberAt(cs, 1, 4)}}

\* datetime.fromisoformat(v.replace("Z", "+00:00")): a date, then optionally
\* any one separator character, a time and a UTC offset.  TRUE when it
\* returns, FALSE when it raises ValueError.
fromisoformat_Z(s) ==
    LET cs == Chars(s)
    IN  \E i \in IsoDateAt(cs) :
           \/ i = Len(cs) + 1
           \/ /\ i <= Len(cs)
              /\ \E j \in TimeAt(cs, i + 1) :
                    \/ j = Len(cs) + 1
                    \/ j = Len(cs) /\ cs[j] = "Z"
                    \/ OffsetAt(cs, j)

\* z.string().datetime(): YYYY-MM-DDTHH:MM:SSZ, with the T and the Z.
zod_datetime(s) ==
    LET cs == Chars(s)
    IN  \E i \in IsoDateAt(cs) :
           /\ LiteralAt(cs, i, "T")
           /\ \E j \in TimeAt(cs, i + 1) : j = Len(cs) /\ cs[j] = "Z"

\* re.match(pattern, v) for a pattern that is a literal, anchored or not.
re_match(pattern, s) ==
    LET pc == Chars(pattern)
        literal == IF pc # <<>> /\ pc[1] = "^" THEN Tail(pc) ELSE pc
        cs == Chars(s)
    IN  Len(literal) <= Len(cs) /\ \A i \in DOMAIN literal : cs[i] = literal[i]

\* The texts and the patterns the model's schemas and payloads are made of.
Texts ==
    {"A", "B", "Z", "B1", "2024-01-15", "2024-13-40", "2024-1-5", "2024-01-15x",
     "2024-02-30", "2023-01-15", "2024-01-15T10:00:00Z", "2024-01-15 10:00:00",
     "2024-01-15T10:00:00", "2024-01-15T10:00:00+02:00", "a@b.co", "{not json"}
Patterns == {"^2024-"}

\* The library as installed: for each function the emitted code calls, the
\* texts on which it returns (strptime, fromisoformat), matches (re.match) or
\* passes (Zod's datetime).
Library ==
    [strptime_Ymd |-> {s \in Texts : strptime_Ymd(s)},
     fromisoformat_Z |-> {s \in Texts : fromisoformat_Z(s)},
     zod_datetime |-> {s \in Texts : zod_datetime(s)},
     re_match |-> {ps \in Patterns \X Texts : re_match(ps[1], ps[2])}]

(***************************************************************************)
(* Running the emitted Python: models.py.                                  *)
(***************************************************************************)
\* Names an annotation of class c needs bound when the class body runs.
AnnotationNames(c) ==
    {c.fields[i].type.n : i \in {j \in DOMAIN c.fields : c.fields[j].type.k \in {"ref", "listref"}}}

\* `from generated.python.models import *`: class bodies run top to bottom and
\* each annotation is evaluated there, so a class name used before its
\* declaration (or never declared) raises NameError at import.
ImportModels(models) ==
    IF \E i \in DOMAIN models :
          ~(AnnotationNames(models[i]) \subseteq {models[j].name : j \in 1..(i - 1)})
    THEN Raise("NameError")
    ELSE Ok({models[i].name : i \in DOMAIN models})

\* The class statement that binds name n last.
ModelClass(models, n) ==
    models[CHOOSE i \in DOMAIN models :
              models[i].name = n /\ \A j \in DOMAIN models : models[j].name = n => j <= i]

PrimAccepts(n, v) ==
    CASE n = "str" -> v.t = "str"
      [] n = "int" -> v.t = "int"
      [] n = "float" -> v.t = "int"
      [] n = "bool" -> v.t = "bool"
      [] n = "list" -> v.t = "list"
      [] n = "dict" -> v.t = "dict"
      [] OTHER -> TRUE

\* pydantic's check of one keyword argument against its field.
FieldAccepts(f, hasValidator, v) ==
    IF v.t = "null" THEN f.optional \/ f.type = PyType("prim", "Any")
    ELSE /\ CASE f.type.k = "prim" -> PrimAccepts(f.type.n, v)
              [] f.type.k = "ref" -> v.t = "inst" /\ v.cls = f.type.n
              [] f.type.k = "listref" ->
                    /\ v.t = "list"
                    /\ \A i \in DOMAIN v.items :
                          v.items[i].t = "inst" /\ v.items[i].cls = f.type.n
              [] f.type.k = "list" ->
                    /\ v.t = "list"
                    /\ \A i \in DOMAIN v.items : PrimAccepts(f.type.n, v.items[i])
         /\ hasValidator => v.s \in lib.strptime_Ymd

\* <Name>(p1=v1, ...): BaseModel.__init__ validates every field and raises one
\* ValidationError listing the fields that failed.
Construct(models, n, args) ==
    LET c == ModelClass(models, n)
        bad == {c.fields[i].name : i \in {j \in DOMAIN c.fields :
                   ~FieldAccepts(c.fields[j], c.fields[j].name \in c.validators,
                                 args[c.fields[j].name])}}
    IN  IF bad # {} THEN RaiseAt("ValidationError", bad)
        ELSE Ok(Inst(n, args))

(***************************************************************************)
(* Running the emitted Python: validator.py.  The bodies of the rules are  *)
(* the `code` strings _process_schema builds; the procedure that applies   *)
(* them is rendered by validator.py.template.                              *)
(***************************************************************************)
\* Whether the `code` of a rule raises ValueError on the value v.
RuleFails(rule, schema, v) ==
    CASE rule = "pattern" -> ~(<<schema.pattern, v.s>> \in lib.re_match)
      [] rule = "enum" -> ~(v.s \in Range(schema.enum))
      [] rule = "minimum" -> v.n < schema.minimum
      [] rule = "maximum" -> v.n > schema.maximum
      [] rule = "date-time" -> ~(v.s \in lib.fromisoformat_Z)
      [] rule = "date" -> ~(v.s \in lib.strptime_Ymd)

\* The outcome of the emitted validation procedure: `evaluated` lists the
\* rules it ran, in order.
Passed(evaluated) == [ok |-> TRUE, evaluated |-> evaluated]
Failed(field, rule, evaluated) ==
    [ok |-> FALSE, err |-> "ValidationError", fields |-> {field}, rule |-> rule,
     evaluated |-> evaluated]

\* The rules of the context applied in list order to the present
\* properties, stopping at the first one that fails.
RECURSIVE ApplyRules(_, _, _, _)
ApplyRules(validations, e, kv, evaluated) ==
    IF validations = <<>> THEN Passed(evaluated)
    ELSE LET r == Head(validations)
             schema == (CHOOSE p \in Range(e.properties) : p.name = r.field).schema
         IN  IF ~(r.field \in DOMAIN kv) \/ kv[r.field] = Null
             THEN ApplyRules(Tail(validations), e, kv, evaluated)
             ELSE IF RuleFails(r.rule, schema, kv[r.field])
             THEN Failed(r.field, r.rule, Append(evaluated, r))
             ELSE ApplyRules(Tail(validations), e, kv, Append(evaluated, r))

\* The emitted validation procedure of one entity: presence of the required
\* properties first, then the rules.
EmittedValidate(model, e, kv) ==
    LET missing == {i \in DOMAIN e.properties :
                      /\ e.properties[i].name \in model.required
                      /\ ~(e.properties[i].name \in DOMAIN kv /\ kv[e.properties[i].name] # Null)}
    IN  IF missing # {}
        THEN Failed(e.properties[CHOOSE i \in missing : \A j \in missing : i <= j].name,
                    "required", <<>>)
        ELSE ApplyRules(model.validations, e, kv, <<>>)

(***************************************************************************)
(* Running the emitted Python: marshaller.py.                              *)
(***************************************************************************)
HasMarshaller(marsh, n) == \E i \in DOMAIN marsh : marsh[i].name = n
MarshallerOf(marsh, n) == marsh[CHOOSE i \in DOMAIN marsh : marsh[i].name = n]

\* The first failure in a sequence of results, or the values in order.
RECURSIVE Collect(_)
Collect(rs) ==
    IF rs = <<>> THEN Ok(<<>>)
    ELSE IF ~Head(rs).ok THEN Head(rs)
    ELSE LET rest == Collect(Tail(rs))
         IN  IF rest.ok THEN Ok(<<Head(rs).val>> \o rest.val) ELSE rest

\* What `for item in v` iterates over: the items of a list, the keys of a
\* dict; None and int are not iterable.
IterFromWire(v) ==
    CASE v.t = "list" -> Ok(v.items)
      [] v.t = "dict" -> Ok(IF DOMAIN v.kv = {} THEN <<>>
                            ELSE <<StrV(CHOOSE k \in DOMAIN v.kv : TRUE)>>)
      [] v.t = "null" -> Raise("TypeError")
      [] v.t = "int" -> Raise("TypeError")

RECURSIVE from_dict(_, _, _, _)
\* One keyword argument of the constructor call in <Name>Marshaller.from_dict.
FromDictArg(models, marsh, a, data) ==
    CASE a.how = "plain" ->
            IF data.t # "dict" THEN Raise("AttributeError")
            ELSE Ok(IF a.prop \in DOMAIN data.kv THEN data.kv[a.prop] ELSE Null)
      [] a.how = "one" ->
            IF ~HasMarshaller(marsh, a.ref) THEN Raise("NameError")
            ELSE IF data.t # "dict" THEN Raise("TypeError")
            ELSE IF ~(a.prop \in DOMAIN data.kv) THEN RaiseAt("KeyError", {a.prop})
            ELSE from_dict(models, marsh, a.ref, data.kv[a.prop])
      [] a.how = "each" ->
            IF data.t # "dict" THEN Raise("AttributeError")
            ELSE LET it == IterFromWire(IF a.prop \in DOMAIN data.kv
                                        THEN data.kv[a.prop] ELSE List(<<>>))
                 IN  IF ~it.ok THEN it
                     ELSE IF it.val # <<>> /\ ~HasMarshaller(marsh, a.ref)
                          THEN Raise("NameError")
                     ELSE LET rs == Collect([i \in DOMAIN it.val |->
                                       from_dict(models, marsh, a.ref, it.val[i])])
                          IN  IF rs.ok THEN Ok(List(rs.val)) ELSE rs

\* <Name>Marshaller.from_dict(data)
from_dict(models, marsh, name, data) ==
    IF ~Truthy(data) THEN Raise("ValueError")
    ELSE IF ~\E i \in DOMAIN models : models[i].name = name THEN Raise("NameError")
    ELSE LET m == MarshallerOf(marsh, name)
             rs == Collect([i \in DOMAIN m.from_dict |->
                               FromDictArg(models, marsh, m.from_dict[i], data)])
         IN  IF ~rs.ok THEN rs
             ELSE Construct(models, name,
                            [k \in {m.from_dict[i].prop : i \in DOMAIN m.from_dict} |->
                                rs.val[CHOOSE i \in DOMAIN m.from_dict : m.from_dict[i].prop = k]])

\* What `for x in obj.p` iterates over: the items of a list; a model instance
\* yields (field name, value) tuples; None is not iterable.
IterFromNative(v) ==
    CASE v.t = "list" -> Ok(v.items)
      [] v.t = "inst" -> Ok(<<[t |-> "tuple"]>>)
      [] v.t = "null" -> Raise("TypeError")

RECURSIVE to_dict(_, _, _)
\* One key of the dict literal in <Name>Marshaller.to_dict.
ToDictEntry(marsh, a, obj) ==
    IF a.how \in {"one"} /\ ~HasMarshaller(marsh, a.ref) THEN Raise("NameError")
    ELSE IF obj.t # "inst" THEN Raise("AttributeError")
    ELSE IF ~(a.prop \in DOMAIN obj.fields) THEN Raise("AttributeError")
    ELSE CASE a.how = "plain" -> Ok(obj.fields[a.prop])
           [] a.how = "one" -> to_dict(marsh, a.ref, obj.fields[a.prop])
           [] a.how = "each" ->
                 LET it == IterFromNative(obj.fields[a.prop])
                 IN  IF ~it.ok THEN it
                     ELSE IF it.val # <<>> /\ ~HasMarshaller(marsh, a.ref)
                          THEN Raise("NameError")
                     ELSE LET rs == Collect([i \in DOMAIN it.val |->
                                                to_dict(marsh, a.ref, it.val[i])])
                          IN  IF rs.ok THEN Ok(List(rs.val)) ELSE rs

\* <Name>Marshaller.to_dict(obj)
\* to_dict writing only the properties whose value is truthy.
to_dict_truthyOnly(marsh, name, obj) ==
    LET m == MarshallerOf(marsh, name)
        rs == Collect([i \in DOMAIN m.to_dict |-> ToDictEntry(marsh, m.to_dict[i], obj)])
        at(k) == rs.val[CHOOSE i \in DOMAIN m.to_dict : m.to_dict[i].prop = k]
    IN  IF ~rs.ok THEN rs
        ELSE Ok(Dict([k \in {q \in {m.to_dict[i].prop : i \in DOMAIN m.to_dict} :
                                at(q) # List(<<>>)} |-> at(k)]))

to_dict(marsh, name, obj) ==
    LET m == MarshallerOf(marsh, name)
        rs == Collect([i \in DOMAIN m.to_dict |-> ToDictEntry(marsh, m.to_dict[i], obj)])
    IN  IF ~rs.ok THEN rs
        ELSE Ok(Dict([k \in {m.to_dict[i].prop : i \in DOMAIN m.to_dict} |->
                        rs.val[CHOOSE i \in DOMAIN m.to_dict : m.to_dict[i].prop = k]]))

(***************************************************************************)
(* generate_typescript_bindings: models.ts.                                *)
(***************************************************************************)
\* A TypeScript type expression: k = "ref" (a declared name), "name" (the
\* synthesized name of an inline object), "array", "enum", "prim".
TsType(k, n, itemK) == [k |-> k, n |-> n, itemK |-> itemK]

\* get_typescript_type on a node without $ref and without nesting.
TsScalarType(type, enum, name) ==
    CASE type = "" -> TsType("prim", "unknown", "")
      [] type = "object" -> TsType("name", name, "")
      [] type = "string" -> IF enum # <<>> THEN TsType("enum", "", "")
                            ELSE TsType("prim", "string", "")
      [] type = "integer" -> TsType("prim", "number", "")
      [] type = "boolean" -> TsType("prim", "boolean", "")
      [] OTHER -> TsType("prim", "unknown", "")

get_typescript_type(schema, name) ==
    IF HasRef(schema) THEN TsType("ref", schema.ref, "")
    ELSE IF schema.type = "array"
         THEN IF schema.itemsRef # "" THEN TsType("array", schema.itemsRef, "ref")
              ELSE LET it == TsScalarType(schema.itemsType, <<>>, name \o "_item")
                   IN  TsType("array", it.n, it.k)
         ELSE TsScalarType(schema.type, schema.enum, name)

\* generate_typescript_interface: every field is emitted as `name?: type`.
generate_typescript_interface(e) ==
    IF e.type # "object" THEN <<>>
    ELSE <<[interface |-> e.name,
            fields |-> [i \in DOMAIN e.properties |->
                          [name |-> e.properties[i].name, optional |-> TRUE,
                           type |-> get_typescript_type(e.properties[i].schema,
                                        e.name \o "_" \o e.properties[i].name)]]]>>

generate_type_guard(name) == [guard |-> "is" \o name, target |-> name, parses |-> name]

ModelsTs(d) ==
    [interfaces |-> Flatten([i \in DOMAIN d.schemas |->
                                generate_typescript_interface(d.schemas[i])]),
     guards |-> [i \in DOMAIN d.schemas |-> generate_type_guard(d.schemas[i].name)]]

(***************************************************************************)
(* generate_typescript_bindings: validator.ts (Zod schemas).               *)
(***************************************************************************)
\* A Zod expression.  z = "ref" stands for the identifier <ref>Schema;
\* item is the element schema of z.array(...).
ZLeaf(z, enum) == [z |-> z, enum |-> enum]
ZNode(z, ref, enum, item) == [z |-> z, ref |-> ref, enum |-> enum, item |-> item]
ZNone == ZLeaf("none", <<>>)

\* generate_zod_schema on a node without nesting.
ZodScalar(type, enum, format) ==
    CASE type = "" -> ZLeaf("unknown", <<>>)
      [] type = "object" -> ZLeaf("object", <<>>)
      [] type = "string" ->
            IF enum # <<>> THEN ZLeaf("enum", enum)
            ELSE IF format = "date-time" THEN ZLeaf("datetime", <<>>)
            ELSE IF format = "date" THEN ZLeaf("string", <<>>)
            ELSE IF format = "email" THEN ZLeaf("email", <<>>)
            ELSE IF format = "uuid" THEN ZLeaf("uuid", <<>>)
            ELSE ZLeaf("string", <<>>)
      [] type = "integer" -> ZLeaf("int", <<>>)
      [] type = "boolean" -> ZLeaf("boolean", <<>>)
      [] OTHER -> ZLeaf("unknown", <<>>)

\* generate_zod_schema on a property schema that has no $ref.  The items of
\* an array are mapped by the same function, which looks at `type` only: items
\* that are a $ref have no `type` and map to z.unknown().
ZodOfSchema(schema) ==
    IF schema.type = "array"
    THEN ZNode("array", "", <<>>, ZodScalar(schema.itemsType, <<>>, ""))
    ELSE LET l == ZodScalar(schema.type, schema.enum, schema.format)
         IN  ZNode(l.z, "", l.enum, ZNone)

\* generate_zod_schema on a component of type object: one field per
\* property, `.optional()` unless the property is in `required`.
generate_zod_schema(e) ==
    [z |-> "object",
     fields |-> [i \in DOMAIN e.properties |->
                   [name |-> e.properties[i].name,
                    optional |-> ~(e.properties[i].name \in e.required),
                    schema |-> IF HasRef(e.properties[i].schema)
                               THEN ZNode("ref", e.properties[i].schema.ref, <<>>, ZNone)
                               ELSE ZodOfSchema(e.properties[i].schema)]]]

\* export const <name>Schema = z.lazy(() => ...), one per component.
ValidatorTs(d) ==
    [i \in DOMAIN d.schemas |->
        [name |-> d.schemas[i].name, lazy |-> generate_zod_schema(d.schemas[i])]]

(***************************************************************************)
(* generate_typescript_bindings: marshaller.ts, unmarshaller.ts.  Each     *)
(* method is the same template with the component's name filled in:        *)
(*   marshal<N>(data):   validator.<N>Schema.parse(data);                  *)
(*                       return JSON.stringify(data)                       *)
(*   unmarshal<N>(json): data = typeof json === 'string' ? JSON.parse(json)*)
(*                       : json;  return validator.<N>Schema.parse(data)   *)
(* delegates: the marshal/unmarshal methods of other components the body   *)
(* calls.                                                                  *)
(***************************************************************************)
MarshallerTs(d) ==
    [i \in DOMAIN d.schemas |->
        [method |-> "marshal" \o d.schemas[i].name, validates |-> d.schemas[i].name,
         serializes |-> "JSON.stringify", delegates |-> {}]]

UnmarshallerTs(d) ==
    [i \in DOMAIN d.schemas |->
        [method |-> "unmarshal" \o d.schemas[i].name, validates |-> d.schemas[i].name,
         parses |-> "JSON.parse", delegates |-> {}]]

(***************************************************************************)
(* Running the emitted TypeScript.                                         *)
(***************************************************************************)
Undefined == [t |-> "undefined"]                 \* a property set to undefined
JsonText(v) == [t |-> "json", wire |-> v]        \* a string holding JSON for v
Malformed == [t |-> "text", s |-> "{not json"]   \* a string that is not JSON

\* JSON.stringify: properties whose value is undefined are left out.
RECURSIVE Jsonable(_)
Jsonable(v) ==
    CASE v.t = "dict" ->
            Dict([k \in {x \in DOMAIN v.kv : v.kv[x].t # "undefined"} |-> Jsonable(v.kv[k])])
      [] v.t = "list" ->
            List([i \in DOMAIN v.items |->
                    IF v.items[i].t = "undefined" THEN Null ELSE Jsonable(v.items[i])])
      [] OTHER -> v

JSON_stringify(v) == JsonText(Jsonable(v))

\* JSON.parse: the value, or SyntaxError.
JSON_parse(s) == IF s.t = "json" THEN Ok(s.wire) ELSE Raise("SyntaxError")

IsDeclared(validator, n) == \E i \in DOMAIN validator : validator[i].name = n
SchemaOf(validator, n) == validator[CHOOSE i \in DOMAIN validator : validator[i].name = n].lazy

\* z.string().datetime() / .email() / .uuid() on the strings of the model.
ZodFormatOk(z, s) ==
    CASE z = "datetime" -> s \in lib.zod_datetime
      [] z = "email" -> s \in {"a@b.co"}
      [] z = "uuid" -> s \in {"123e4567-e89b-12d3-a456-426614174000"}

ZodLeafAccepts(l, v) ==
    CASE l.z = "unknown" -> TRUE
      [] l.z = "object" -> v.t = "dict"
      [] l.z = "string" -> v.t = "str"
      [] l.z = "enum" -> v.t = "str" /\ v.s \in Range(l.enum)
      [] l.z = "int" -> v.t = "int"
      [] l.z = "boolean" -> v.t = "bool"
      [] l.z \in {"datetime", "email", "uuid"} -> v.t = "str" /\ ZodFormatOk(l.z, v.s)

RECURSIVE ZodParse(_, _, _)
\* One field of a z.object: Ok(<<present, value>>) or the error.
ZodField(validator, f, data) ==
    LET v == IF f.name \in DOMAIN data.kv THEN data.kv[f.name] ELSE Undefined
    IN  IF v.t = "undefined" /\ (f.optional \/ f.schema.z = "unknown")
        THEN Ok([present |-> f.name \in DOMAIN data.kv, value |-> v])
        ELSE CASE f.schema.z = "ref" ->
                     LET r == ZodParse(validator, f.schema.ref, v)
                     IN  IF r.ok THEN Ok([present |-> TRUE, value |-> r.val]) ELSE r
               [] f.schema.z = "array" ->
                     IF v.t = "list" /\ \A i \in DOMAIN v.items :
                                            ZodLeafAccepts(f.schema.item, v.items[i])
                     THEN Ok([present |-> TRUE, value |-> v])
                     ELSE RaiseAt("ZodError", {f.name})
               [] OTHER ->
                     IF ZodLeafAccepts(ZLeaf(f.schema.z, f.schema.enum), v)
                     THEN Ok([present |-> TRUE, value |-> v])
                     ELSE RaiseAt("ZodError", {f.name})

\* validator.<name>Schema.parse(data).  The z.lazy getter runs first: an
\* identifier <ref>Schema that validator.ts never declares is a
\* ReferenceError.  Keys the schema does not name are stripped.
ZodParse(validator, name, data) ==
    LET obj == SchemaOf(validator, name)
    IN  IF \E i \in DOMAIN obj.fields :
              obj.fields[i].schema.z = "ref" /\ ~IsDeclared(validator, obj.fields[i].schema.ref)
        THEN Raise("ReferenceError")
        ELSE IF data.t # "dict" THEN Raise("ZodError")
        ELSE LET rs == [i \in DOMAIN obj.fields |-> ZodField(validator, obj.fields[i], data)]
                 other == {i \in DOMAIN rs : ~rs[i].ok /\ rs[i].err # "ZodError"}
                 bad == {i \in DOMAIN rs : ~rs[i].ok}
             IN  IF other # {} THEN rs[CHOOSE i \in other : \A j \in other : i <= j]
                 ELSE IF bad # {}
                 THEN RaiseAt("ZodError", {obj.fields[i].name : i \in bad}
                                          \cup UNION {rs[i].fields : i \in bad})
                 ELSE Ok(Dict([k \in {obj.fields[i].name : i \in {j \in DOMAIN rs : rs[j].val.present}} |->
                                 rs[CHOOSE i \in DOMAIN rs : obj.fields[i].name = k].val.value]))

\* new SchemaRegistryError(code, ...), thrown to the caller.
Throw(code) == [ok |-> FALSE, err |-> "SchemaRegistryError", code |-> code]

\* The try block of unmarshal<Name>.
unmarshalTry(validator, name, json) ==
    LET data == IF json.t \in {"json", "text"} THEN JSON_parse(json) ELSE Ok(json)
    IN  IF ~data.ok THEN data ELSE ZodParse(validator, name, data.val)

\* A catch block without the SyntaxError branch.
unmarshalCatch_noSyntaxBranch(error) ==
    IF error = "ZodError" THEN Throw("VALIDATION_ERROR")
    ELSE Throw("UNMARSHAL_ERROR")

\* The catch block of unmarshal<Name>.
unmarshalCatch(error) ==
    IF error = "SyntaxError" THEN Throw("PARSE_ERROR")
    ELSE IF error = "ZodError" THEN Throw("VALIDATION_ERROR")
    ELSE Throw("UNMARSHAL_ERROR")

unmarshal(validator, name, json) ==
    LET r == unmarshalTry(validator, name, json)
    IN  IF r.ok THEN r ELSE unmarshalCatch(r.err)

\* A try block that serializes without parsing.
marshalTry_unvalidated(validator, name, data) == Ok(JSON_stringify(data))

\* The try block of marshal<Name>: the parse result is dropped and the data
\* as given is serialized.
marshalTry(validator, name, data) ==
    LET r == ZodParse(validator, name, data)
    IN  IF ~r.ok THEN r ELSE Ok(JSON_stringify(data))

\* The catch block of marshal<Name>.
marshalCatch(error) ==
    IF error = "ZodError" THEN Throw("VALIDATION_ERROR") ELSE Throw("MARSHAL_ERROR")

marshal(validator, name, data) ==
    LET r == marshalTry(validator, name, data)
    IN  IF r.ok THEN r ELSE marshalCatch(r.err)

(***************************************************************************)
(* The inputs the emitted code is called with.                             *)
(***************************************************************************)
SeqsUpTo(S, n) == UNION {[1..k -> S] : k \in 0..n}

\* Values tried for a scalar or array-of-scalar property: well-typed ones
\* that meet the constraints, and ones that break the type or a constraint.
ScalarCandidates(s) ==
    CASE s.type = "string" /\ s.pattern # "" ->
            {StrV("2024-01-15"), StrV("2024-13-40"), StrV("2023-01-15"), StrV("A")}
      [] s.type = "integer" /\ s.hasMaximum -> {IntV(5), IntV(-1), IntV(11)}
      [] s.type = "string" /\ s.enum # <<>> -> {StrV("A"), StrV("Z")}
      [] s.type = "string" /\ s.format = "date" ->
            {StrV("2024-01-15"), StrV("2024-13-40"), StrV("2024-1-5"), StrV("2024-01-15x")}
      [] s.type = "string" /\ s.format = "date-time" ->
            {StrV("2024-01-15T10:00:00Z"), StrV("2024-01-15 10:00:00"),
             StrV("2024-01-15T10:00:00"), StrV("2024-01-15T10:00:00+02:00")}
      [] s.type = "string" -> {StrV("A"), IntV(5)}
      [] s.type = "integer" -> {IntV(5), IntV(-1)}
      [] s.type = "array" -> {List(q) : q \in SeqsUpTo({StrV("A"), IntV(5)}, MaxArrayLen)}

RECURSIVE Mappings(_, _, _, _)
\* Values tried for a property; nil is the "no value" of the side the
\* mapping comes from (JSON null, or undefined in a TypeScript object).
Candidates(d, s, depth, nil) ==
    LET target == IF HasRef(s) THEN s.ref ELSE s.itemsRef
        nested == IF target \in Names(d) /\ depth > 0
                  THEN {Dict(kv) : kv \in Mappings(d, EntityOf(d, target).properties, depth - 1, nil)}
                  ELSE {Dict(EmptyKV), Dict([k \in {"billId"} |-> StrV("A")])}
    IN  {nil} \cup
        (IF HasRef(s) THEN nested
         ELSE IF HasItemsRef(s) THEN {List(q) : q \in SeqsUpTo(nested, MaxArrayLen)}
         ELSE ScalarCandidates(s))

\* Every mapping over a subset of the properties' names.
Mappings(d, props, depth, nil) ==
    IF props = <<>> THEN {EmptyKV}
    ELSE LET rest == Mappings(d, Tail(props), depth, nil)
         IN  rest \cup {[k \in DOMAIN kv \cup {Head(props).name} |->
                           IF k = Head(props).name THEN v ELSE kv[k]] :
                        <<v, kv>> \in Candidates(d, Head(props).schema, depth, nil) \X rest}

\* Wire payloads handed to from_dict / unmarshal for entity n.
Payloads(d, n) == {Dict(kv) : kv \in Mappings(d, EntityOf(d, n).properties, MaxDepth - 1, Null)}

\* TypeScript objects handed to marshal for entity n.
TsObjects(d, n) == {Dict(kv) : kv \in Mappings(d, EntityOf(d, n).properties, MaxDepth - 1, Undefined)}

(***************************************************************************)
(* What the schema document asks of a value (the reference the emitted     *)
(* validation is compared with).                                           *)
(***************************************************************************)
\* A well-typed scalar or array of scalars.
TypeOk(s, v) ==
    CASE s.type = "string" -> v.t = "str"
      [] s.type = "integer" -> v.t = "int"
      [] s.type = "array" -> v.t = "list" /\ \A i \in DOMAIN v.items : v.items[i].t = "str"

\* enum, minimum and format date of a well-typed scalar.
ConstraintsOk(s, v) ==
    /\ (s.type = "string" /\ s.pattern # "") => <<s.pattern, v.s>> \in lib.re_match
    /\ (s.type = "string" /\ s.enum # <<>>) => v.s \in Range(s.enum)
    /\ (s.type = "integer" /\ s.hasMinimum) => v.n >= s.minimum
    /\ (s.type = "integer" /\ s.hasMaximum) => v.n <= s.maximum
    /\ (s.type = "string" /\ s.format = "date") => v.s \in {"2024-01-15"}
    /\ (s.type = "string" /\ s.format = "date-time") => v.s \in {"2024-01-15T10:00:00Z"}

RECURSIVE Conforms(_, _, _, _, _)
\* Whether the mapping kv (absent keys and keys mapped to nil count as
\* absent) meets entity n's schema: every required property present, every
\* present property of its type and within its constraints, recursively.
ConformsProp(d, s, v, nil, depth) ==
    IF HasRef(s)
    THEN v.t = "dict" /\ s.ref \in Names(d) /\ depth > 0 /\ Conforms(d, s.ref, v.kv, nil, depth - 1)
    ELSE IF HasItemsRef(s)
    THEN /\ v.t = "list"
         /\ \A i \in DOMAIN v.items :
               /\ v.items[i].t = "dict" /\ s.itemsRef \in Names(d) /\ depth > 0
               /\ Conforms(d, s.itemsRef, v.items[i].kv, nil, depth - 1)
    ELSE TypeOk(s, v) /\ ConstraintsOk(s, v)

Conforms(d, n, kv, nil, depth) ==
    LET e == EntityOf(d, n)
    IN  \A i \in DOMAIN e.properties :
           LET p == e.properties[i]
               present == p.name \in DOMAIN kv /\ kv[p.name] # nil
           IN  /\ p.name \in e.required => present
               /\ present => ConformsProp(d, p.schema, kv[p.name], nil, depth)

(***************************************************************************)
(* Entity values.  An entity value is given by the mapping of its present  *)
(* properties; a Python instance holds None for an absent optional         *)
(* property, a TypeScript object leaves the key out.                       *)
(***************************************************************************)
RECURSIVE ToInstance(_, _, _)
ToInstanceProp(d, s, v) ==
    IF HasRef(s) THEN ToInstance(d, s.ref, v.kv)
    ELSE IF HasItemsRef(s)
    THEN List([i \in DOMAIN v.items |-> ToInstance(d, s.itemsRef, v.items[i].kv)])
    ELSE v

\* The pydantic instance of entity n for the conforming mapping kv.
ToInstance(d, n, kv) ==
    LET e == EntityOf(d, n)
    IN  Inst(n, [k \in PropNames(e) |->
                   IF k \in DOMAIN kv /\ kv[k] # Null
                   THEN ToInstanceProp(d, (CHOOSE p \in Range(e.properties) : p.name = k).schema, kv[k])
                   ELSE Null])

\* No key is mapped to nil: the mapping is an entity value in normal form.
RECURSIVE NoNil(_, _)
NoNil(v, nil) ==
    CASE v.t = "dict" -> \A k \in DOMAIN v.kv : v.kv[k] # nil /\ NoNil(v.kv[k], nil)
      [] v.t = "list" -> \A i \in DOMAIN v.items : NoNil(v.items[i], nil)
      [] OTHER -> TRUE

\* The valid entity values of entity n, as mappings.
EntityValues(d, n) ==
    {x \in Payloads(d, n) : NoNil(x, Null) /\ Conforms(d, n, x.kv, Null, MaxDepth - 1)}

\* The mapping of a Python value: None fields left out.
RECURSIVE FromInstance(_)
FromInstance(v) ==
    CASE v.t = "inst" ->
            Dict([k \in {x \in DOMAIN v.fields : v.fields[x] # Null} |-> FromInstance(v.fields[k])])
      [] v.t = "list" -> List([i \in DOMAIN v.items |-> FromInstance(v.items[i])])
      [] OTHER -> v

\* The mapping of a TypeScript value: undefined properties left out.
FromObject(v) == Jsonable(v)

(***************************************************************************)
(* The generators as state machines.                                       *)
(***************************************************************************)
PyArtifacts == {"models.py", "event_bridge_publisher.py", "event_bridge_consumer.py",
                "marshaller.py", "validator.py", "common.py"}
TsArtifacts == {"models.ts", "validator.ts", "common.ts", "marshaller.ts", "unmarshaller.ts"}

NoFiles == [f \in {} |-> Null]
\* output_path.write_text(content) / f.write(content)
WriteFile(dir, file, content) ==
    [f \in DOMAIN dir \cup {file} |-> IF f = file THEN content ELSE dir[f]]

NoCall == [op |-> "none"]

NoSnapshot == [taken |-> FALSE]
Snapshot(py, ts) == [taken |-> TRUE, py |-> py, ts |-> ts]

\* No second run on the output directory.
NoRival == [pc |-> "none"]

Init ==
    /\ doc \in Documents
    /\ pyPc = "initialize" /\ pyDir = NoFiles /\ pySteps = <<>> /\ pyErr = ""
    /\ tsPc = "load" /\ tsDir = NoFiles /\ tsSteps = <<>> /\ tsErr = ""
    /\ tsPending = <<>>
    /\ snapshot = NoSnapshot
    /\ lib = Library
    /\ call = NoCall
    /\ rival = NoRival

\* PyStep with an emitter that consumes the schemas it has handled.
PyStep_consuming(step, result, file, next) ==
    /\ pyPc = step
    /\ pySteps' = Append(pySteps, step)
    /\ pyPc' = IF result.ok THEN next ELSE "raised"
    /\ pyErr' = IF result.ok THEN "" ELSE result.err
    /\ pyDir' = IF result.ok THEN WriteFile(pyDir, file, result.val) ELSE pyDir
    /\ doc' = IF doc.schemas = <<>> THEN doc ELSE [doc EXCEPT !.schemas = Tail(@)]
    /\ UNCHANGED <<tsPc, tsDir, tsSteps, tsPending, tsErr, call, snapshot, lib, rival>>

\* One step of generate(): emit an artifact from self.schema and write it.
\* No emitter assigns into self.schema or into a node of it.
PyStep(step, result, file, next) ==
    /\ pyPc = step
    /\ pySteps' = Append(pySteps, step)
    /\ pyPc' = IF result.ok THEN next ELSE "raised"
    /\ pyErr' = IF result.ok THEN "" ELSE result.err
    /\ pyDir' = IF result.ok THEN WriteFile(pyDir, file, result.val) ELSE pyDir
    /\ UNCHANGED <<doc, tsPc, tsDir, tsSteps, tsPending, tsErr, call, snapshot, lib, rival>>

\* main(): generator.initialize(options); a failure ends in sys.exit(1).
PyInitialize ==
    /\ pyPc = "initialize"
    /\ pySteps' = Append(pySteps, "initialize")
    /\ pyPc' = IF initialize(doc).ok THEN "models" ELSE "exited"
    /\ pyErr' = IF initialize(doc).ok THEN "" ELSE "SystemExit"
    /\ UNCHANGED <<doc, pyDir, tsPc, tsDir, tsSteps, tsPending, tsErr, call, snapshot, lib, rival>>

\* generate(): one action per artifact, in the order of the code.
PyGenerateModels == PyStep("models", _generate_models(doc), "models.py", "publisher")

PyGeneratePublisher ==
    PyStep("publisher", _generate_event_publisher(doc), "event_bridge_publisher.py", "consumer")

PyGenerateConsumer ==
    PyStep("consumer", _generate_event_consumer(doc), "event_bridge_consumer.py", "marshaller")

PyGenerateMarshaller ==
    PyStep("marshaller", _generate_marshaller(doc), "marshaller.py", "validator")

\* template.render(**context) of a template of the templates directory (the
\* templates are not part of the generator's source; they are taken to exist).
RenderTemplate(template, context) ==
    Ok([kind |-> "rendered", template |-> template, context |-> context])

PyRenderValidator ==
    PyStep("validator", RenderTemplate("validator.py.template", _process_schema(doc)), "validator.py", "common")

PyRenderCommon ==
    PyStep("common", RenderTemplate("common.py.template", _process_schema(doc)), "common.py", "done")

\* A second PythonGenerator process given the same output directory:
\* generate() takes no lock, writes each file in place with write_text and
\* never reads the directory.  The step table is generate()'s.
PySequence == <<"models", "publisher", "consumer", "marshaller", "validator", "common">>
PyFile(step) ==
    CASE step = "models" -> "models.py"
      [] step = "publisher" -> "event_bridge_publisher.py"
      [] step = "consumer" -> "event_bridge_consumer.py"
      [] step = "marshaller" -> "marshaller.py"
      [] step = "validator" -> "validator.py"
      [] step = "common" -> "common.py"
PyEmit(step, d) ==
    CASE step = "models" -> _generate_models(d)
      [] step = "publisher" -> _generate_event_publisher(d)
      [] step = "consumer" -> _generate_event_consumer(d)
      [] step = "marshaller" -> _generate_marshaller(d)
      [] step = "validator" -> RenderTemplate("validator.py.template", _process_schema(d))
      [] step = "common" -> RenderTemplate("common.py.template", _process_schema(d))
PyAfter(step) ==
    LET i == CHOOSE k \in DOMAIN PySequence : PySequence[k] = step
    IN  IF i = Len(PySequence) THEN "done" ELSE PySequence[i + 1]

RivalDocuments == {ExampleDocument, OtherNamesDocument}

RivalStart ==
    /\ rival = NoRival
    /\ \E d \in RivalDocuments :
          rival' = [pc |-> IF initialize(d).ok THEN "models" ELSE "exited", doc |-> d]
    /\ UNCHANGED <<doc, pyPc, pyDir, pySteps, pyErr, tsPc, tsDir, tsSteps, tsPending, tsErr,
                   call, snapshot, lib>>

RivalStep ==
    /\ rival.pc \in Range(PySequence)
    /\ LET result == PyEmit(rival.pc, rival.doc)
       IN  /\ rival' = [rival EXCEPT !.pc = IF result.ok THEN PyAfter(rival.pc) ELSE "raised"]
           /\ pyDir' = IF result.ok THEN WriteFile(pyDir, PyFile(rival.pc), result.val)
                                    ELSE pyDir
    /\ UNCHANGED <<doc, pyPc, pySteps, pyErr, tsPc, tsDir, tsSteps, tsPending, tsErr,
                   call, snapshot, lib>>

TsStep(step, result, file, next) ==
    /\ tsPc = step
    /\ tsSteps' = Append(tsSteps, step)
    /\ tsPc' = IF result.ok THEN next ELSE "raised"
    /\ tsErr' = IF result.ok THEN "" ELSE result.err
    /\ tsDir' = IF result.ok THEN WriteFile(tsDir, file, result.val) ELSE tsDir
    /\ UNCHANGED <<doc, pyPc, pyDir, pySteps, pyErr, tsPending, call, snapshot, lib, rival>>

\* open(schema_file), yaml.safe_load, openapi_schema['components']['schemas']
LoadComponents(d) ==
    IF ~d.file THEN Raise("FileNotFoundError")
    ELSE IF ~d.components \/ ~d.schemasKey THEN Raise("KeyError")
    ELSE Ok(d.schemas)

TsLoad ==
    /\ tsPc = "load"
    /\ tsSteps' = Append(tsSteps, "load")
    /\ tsPc' = IF LoadComponents(doc).ok THEN "models" ELSE "raised"
    /\ tsErr' = IF LoadComponents(doc).ok THEN "" ELSE LoadComponents(doc).err
    /\ UNCHANGED <<doc, pyPc, pyDir, pySteps, pyErr, tsDir, tsPending, call, snapshot, lib, rival>>

TsWriteModels == TsStep("models", Ok(ModelsTs(doc)), "models.ts", "validator")

\* The nodes of the document generate_zod_schema is called on: a component,
\* the schema of a property, the `items` of an array.
ObjectNode(name) == [node |-> "object", name |-> name]
SchemaNode(schema) == [node |-> "schema", schema |-> schema]
ItemsNode(schema) == [node |-> "items", type |-> schema.itemsType, ref |-> schema.itemsRef]

\* The calls that follow a reference into the entity it names.
ZodCalls_dereferencing(d, n) ==
    CASE n.node = "object" ->
            [i \in DOMAIN EntityOf(d, n.name).properties |->
               SchemaNode(EntityOf(d, n.name).properties[i].schema)]
      [] n.node = "schema" ->
            IF HasRef(n.schema)
            THEN IF n.schema.ref \in Names(d) THEN <<ObjectNode(n.schema.ref)>> ELSE <<>>
            ELSE IF n.schema.type = "array" THEN <<ItemsNode(n.schema)>> ELSE <<>>
      [] n.node = "items" ->
            IF n.ref \in Names(d) THEN <<ObjectNode(n.ref)>> ELSE <<>>

\* The calls generate_zod_schema makes to itself while it maps node n: one
\* per property that has no $ref for a component, one for the items of an
\* array, none otherwise.  A $ref yields `<name>Schema` without a call.
ZodCalls(d, n) ==
    CASE n.node = "object" ->
            LET e == EntityOf(d, n.name)
                RECURSIVE calls(_)
                calls(i) == IF i > Len(e.properties) THEN <<>>
                            ELSE (IF HasRef(e.properties[i].schema) THEN <<>>
                                  ELSE <<SchemaNode(e.properties[i].schema)>>) \o calls(i + 1)
            IN  calls(1)
      [] n.node = "schema" ->
            IF n.schema.type = "array" THEN <<ItemsNode(n.schema)>> ELSE <<>>
      [] n.node = "items" -> <<>>

\* "First pass to declare all schemas": generate_zod_schema is called on each
\* component in turn.
TsStartValidator ==
    /\ tsPc = "validator"
    /\ tsSteps' = Append(tsSteps, "validator")
    /\ tsPending' = [i \in DOMAIN doc.schemas |-> ObjectNode(doc.schemas[i].name)]
    /\ tsPc' = "validator_mapping"
    /\ UNCHANGED <<doc, pyPc, pyDir, pySteps, pyErr, tsDir, tsErr, call, snapshot, lib, rival>>

\* One call of generate_zod_schema: the node is mapped, the calls it makes
\* come next.
TsMapNode ==
    /\ tsPc = "validator_mapping" /\ tsPending # <<>>
    /\ Len(tsPending) <= MaxPending
    /\ tsPending' = ZodCalls(doc, Head(tsPending)) \o Tail(tsPending)
    /\ UNCHANGED <<doc, pyPc, pyDir, pySteps, pyErr, tsPc, tsDir, tsSteps, tsErr, call, snapshot, lib, rival>>

\* Every component mapped: validator.ts is written.
TsWriteValidator ==
    /\ tsPc = "validator_mapping" /\ tsPending = <<>>
    /\ tsPc' = "common"
    /\ tsDir' = WriteFile(tsDir, "validator.ts", ValidatorTs(doc))
    /\ UNCHANGED <<doc, pyPc, pyDir, pySteps, pyErr, tsSteps, tsPending, tsErr, call, snapshot, lib, rival>>
TsWriteCommon == TsStep("common", Ok([kind |-> "common"]), "common.ts", "marshaller")
TsWriteMarshaller == TsStep("marshaller", Ok(MarshallerTs(doc)), "marshaller.ts", "unmarshaller")
TsWriteUnmarshaller == TsStep("unmarshaller", Ok(UnmarshallerTs(doc)), "unmarshaller.ts", "done")

PyEnded == pyPc \in {"done", "raised", "exited"}
TsEnded == tsPc \in {"done", "raised"}

(***************************************************************************)
(* Calls into the emitted code.                                            *)
(***************************************************************************)
\* The emitted code is called once both generators have run, with no other
\* call in progress, and only if the files it is made of were written.
Generated == call = NoCall /\ PyEnded /\ TsEnded /\ snapshot = NoSnapshot

\* Both generators are started again on the same document and the same
\* output directories; the artifacts of the run before are kept aside.
Regenerate ==
    /\ Generated
    /\ snapshot' = Snapshot(pyDir, tsDir)
    /\ pyPc' = "initialize" /\ pySteps' = <<>> /\ pyErr' = ""
    /\ tsPc' = "load" /\ tsSteps' = <<>> /\ tsErr' = ""
    /\ UNCHANGED <<doc, pyDir, tsDir, tsPending, call, lib, rival>>

\* The second run has ended; the kept artifacts are dropped.
DropSnapshot ==
    /\ snapshot # NoSnapshot /\ PyEnded /\ TsEnded
    /\ snapshot' = NoSnapshot
    /\ UNCHANGED <<doc, pyPc, pyDir, pySteps, pyErr, tsPc, tsDir, tsSteps, tsPending, tsErr, call, lib, rival>>
PyReady == Generated /\ {"models.py", "marshaller.py"} \subseteq DOMAIN pyDir
TsReady == Generated /\ TsArtifacts \subseteq DOMAIN tsDir

\* Importing generated.python.marshaller imports models.py first.
PyFromDict(dir, name, data) ==
    LET imp == ImportModels(dir["models.py"])
    IN  IF ~imp.ok THEN imp
        ELSE from_dict(dir["models.py"], dir["marshaller.py"], name, data)

PyToDict(dir, name, obj) ==
    LET imp == ImportModels(dir["models.py"])
    IN  IF ~imp.ok THEN imp ELSE to_dict(dir["marshaller.py"], name, obj)

\* json.dumps / json.loads between the wire mapping and its JSON text.
json_dumps(v) == JsonText(v)
json_loads(s) == s.wire

Called(op, name, arg, mid, res) ==
    [op |-> op, name |-> name, arg |-> arg, mid |-> mid, res |-> res]

Calling(record) ==
    /\ call' = record
    /\ UNCHANGED <<doc, pyPc, pyDir, pySteps, pyErr, tsPc, tsDir, tsSteps, tsPending, tsErr, snapshot, lib, rival>>

\* <Name>Marshaller.from_dict(data)
CallFromDict ==
    /\ PyReady
    /\ \E n \in Names(doc) : \E data \in Payloads(doc, n) :
          Calling(Called("from_dict", n, data, Null, PyFromDict(pyDir, n, data)))

\* <Name>Marshaller.to_dict(x), then from_dict of what it returned.
CallRoundTripPy ==
    /\ PyReady
    /\ \E n \in Names(doc) : \E x \in EntityValues(doc, n) :
          LET wire == PyToDict(pyDir, n, ToInstance(doc, n, x.kv))
          IN  Calling(Called("py_round_trip", n, x, wire,
                             IF wire.ok THEN PyFromDict(pyDir, n, wire.val) ELSE wire))

\* Unmarshaller.unmarshal<Name>(json): a JSON string, a string that is not
\* JSON, or an already parsed value.
CallUnmarshal ==
    /\ TsReady
    /\ \E n \in Names(doc) :
          \E json \in {Malformed} \cup Payloads(doc, n) \cup {JsonText(p) : p \in Payloads(doc, n)} :
             Calling(Called("unmarshal", n, json, Null, unmarshal(tsDir["validator.ts"], n, json)))

\* Marshaller.marshal<Name>(data)
CallMarshal ==
    /\ TsReady
    /\ \E n \in Names(doc) : \E data \in TsObjects(doc, n) :
          Calling(Called("marshal", n, data, Null, marshal(tsDir["validator.ts"], n, data)))

\* marshal<Name>(x), then unmarshal<Name> of the string it returned.
CallRoundTripTs ==
    /\ TsReady
    /\ \E n \in Names(doc) : \E x \in EntityValues(doc, n) :
          LET json == marshal(tsDir["validator.ts"], n, x)
          IN  Calling(Called("ts_round_trip", n, x, json,
                             IF json.ok THEN unmarshal(tsDir["validator.ts"], n, json.val)
                             ELSE json))

\* Python publishes: to_dict(x), json.dumps; TypeScript consumes: unmarshal.
CallPyToTs ==
    /\ PyReady /\ TsReady
    /\ \E n \in Names(doc) : \E x \in EntityValues(doc, n) :
          LET wire == PyToDict(pyDir, n, ToInstance(doc, n, x.kv))
          IN  Calling(Called("py_to_ts", n, x, wire,
                             IF wire.ok
                             THEN unmarshal(tsDir["validator.ts"], n, json_dumps(wire.val))
                             ELSE wire))

\* TypeScript publishes: marshal(x); Python consumes: json.loads, from_dict.
CallTsToPy ==
    /\ PyReady /\ TsReady
    /\ \E n \in Names(doc) : \E x \in EntityValues(doc, n) :
          LET json == marshal(tsDir["validator.ts"], n, x)
          IN  Calling(Called("ts_to_py", n, x, json,
                             IF json.ok THEN PyFromDict(pyDir, n, json_loads(json.val))
                             ELSE json))

\* Payloads whose present scalar properties have the declared type.
WellTypedPayloads(d, n) ==
    {x \in Payloads(d, n) :
       \A i \in DOMAIN EntityOf(d, n).properties :
          LET p == EntityOf(d, n).properties[i]
          IN  (p.name \in DOMAIN x.kv /\ x.kv[p.name] # Null
               /\ ~HasRef(p.schema) /\ ~HasItemsRef(p.schema))
                 => TypeOk(p.schema, x.kv[p.name])}

\* The validation procedure of validator.py on a payload of entity n.
CallValidate ==
    /\ Generated /\ "validator.py" \in DOMAIN pyDir
    /\ \E n \in Names(doc) : \E data \in WellTypedPayloads(doc, n) :
          LET model == CHOOSE m \in Range(pyDir["validator.py"].context) : m.name = n
          IN  Calling(Called("validate", n, data, Null,
                             EmittedValidate(model, EntityOf(doc, n), data.kv)))

\* What the wrapper's caller gets, given what the conversion did: the
\* wrapper's own result (None for validate_event, the entity for
\* parse_event, a response otherwise) or an exception.
Response == [t |-> "response"]
RunWrapper(w, conversion) ==
    IF conversion.ok
    THEN Ok(CASE w.method = "parse_event" -> conversion.val
              [] w.method = "validate_event" -> Null
              [] OTHER -> Response)
    ELSE CASE w.on_exception = "raise" -> conversion
           [] w.on_exception = "wrap" -> Raise("ValidationError")
           [] w.on_exception = "return" -> Ok(Null)

\* The wrappers the generator's emitters produce for this document.
Wrappers(dir) ==
    {EventPublisherWrapper(dir["event_bridge_publisher.py"]),
     EventConsumerWrapper(dir["event_bridge_consumer.py"]),
     _generate_publisher, _generate_consumer, _generate_validator}

\* A wrapper called on an entity (publish) or on a payload (handle_event,
\* parse_event, validate_event) of its root entity.
CallWrapper ==
    /\ PyReady
    /\ {"event_bridge_publisher.py", "event_bridge_consumer.py"} \subseteq DOMAIN pyDir
    /\ ImportModels(pyDir["models.py"]).ok
    /\ \E w \in Wrappers(pyDir) :
          /\ w.root \in Names(doc)
          /\ \/ /\ w.converts = "from_dict"
                /\ \E data \in Payloads(doc, w.root) :
                      LET conversion == PyFromDict(pyDir, w.root, data)
                      IN  Calling(Called("wrapper", w.root, data,
                                         [wrapper |-> w, conversion |-> conversion],
                                         RunWrapper(w, conversion)))
             \/ /\ w.converts = "to_dict"
                /\ \E x \in EntityValues(doc, w.root) :
                      LET conversion == PyToDict(pyDir, w.root, ToInstance(doc, w.root, x.kv))
                      IN  Calling(Called("wrapper", w.root, x,
                                         [wrapper |-> w, conversion |-> conversion],
                                         RunWrapper(w, conversion)))

\* The values of the end-to-end example.
ExampleWire ==
    Dict([k \in {"bill"} |->
            Dict([j \in {"billId", "amountInCents"} |->
                    IF j = "billId" THEN StrV("B1") ELSE IntV(500)])])
ExampleEntity ==
    Inst("BillEvent",
         [k \in {"bill"} |->
            Inst("Bill", [j \in {"billId", "amountInCents"} |->
                            IF j = "billId" THEN StrV("B1") ELSE IntV(500)])])
ExampleMissing == Dict([k \in {"bill"} |-> Dict([j \in {"billId"} |-> StrV("B1")])])

\* The end-to-end example, one call at a time, in both languages.  For the
\* TypeScript calls `mid` holds what the try block threw, which the
\* SchemaRegistryError carries as its cause and in its message.
CallEndToEnd ==
    /\ PyReady /\ TsReady /\ doc = ExampleDocument
    /\ \/ Calling(Called("e2e_to_dict", "BillEvent", ExampleEntity, Null,
                         PyToDict(pyDir, "BillEvent", ExampleEntity)))
       \/ Calling(Called("e2e_from_dict", "BillEvent", ExampleWire, Null,
                         PyFromDict(pyDir, "BillEvent", ExampleWire)))
       \/ Calling(Called("e2e_from_dict_missing", "BillEvent", ExampleMissing, Null,
                         PyFromDict(pyDir, "BillEvent", ExampleMissing)))
       \/ Calling(Called("e2e_marshal", "BillEvent", ExampleWire, Null,
                         marshal(tsDir["validator.ts"], "BillEvent", ExampleWire)))
       \/ \E json \in {JsonText(ExampleWire), JsonText(ExampleMissing)} :
             Calling(Called("e2e_unmarshal", "BillEvent", json,
                            unmarshalTry(tsDir["validator.ts"], "BillEvent", json),
                            unmarshal(tsDir["validator.ts"], "BillEvent", json)))

\* The call returns (or raises) to its caller.
Return ==
    /\ call # NoCall
    /\ call' = NoCall
    /\ UNCHANGED <<doc, pyPc, pyDir, pySteps, pyErr, tsPc, tsDir, tsSteps, tsPending, tsErr, snapshot, lib, rival>>

Next ==
    \/ PyInitialize \/ PyGenerateModels \/ PyGeneratePublisher \/ PyGenerateConsumer
    \/ PyGenerateMarshaller \/ PyRenderValidator \/ PyRenderCommon
    \/ TsLoad \/ TsWriteModels \/ TsStartValidator \/ TsMapNode \/ TsWriteValidator
    \/ TsWriteCommon
    \/ TsWriteMarshaller \/ TsWriteUnmarshaller
    \/ CallFromDict \/ CallRoundTripPy \/ CallUnmarshal \/ CallMarshal
    \/ CallRoundTripTs \/ CallPyToTs \/ CallTsToPy \/ CallEndToEnd \/ CallValidate \/ CallWrapper \/ Return
    \/ Regenerate \/ DropSnapshot

Spec == Init /\ [][Next]_vars

\* The two generators are separate programs; each keeps running until it
\* returns or raises.
PyGenerate ==
    \/ PyInitialize \/ PyGenerateModels \/ PyGeneratePublisher \/ PyGenerateConsumer
    \/ PyGenerateMarshaller \/ PyRenderValidator \/ PyRenderCommon
TsGenerate ==
    \/ TsLoad \/ TsWriteModels \/ TsStartValidator \/ TsMapNode \/ TsWriteValidator
    \/ TsWriteCommon \/ TsWriteMarshaller \/ TsWriteUnmarshaller

\* Two generation runs on one output directory.
ConcurrentNext == PyGenerate \/ RivalStart \/ RivalStep
ConcurrentSpec == Init /\ [][ConcurrentNext]_vars

\* Documents with a component that is not an object (a string enum) and with
\* an inline object property, next to the others: the run of
\* generate_typescript_bindings up to models.ts.
SObject == Schema("object", "", "", "", <<>>, FALSE, 0, "")
Component(name, type) == [name |-> name, type |-> type, properties |-> <<>>, required |-> {}]
ScalarComponentDocument ==
    Document(TRUE, TRUE, TRUE,
             <<Component("BillStatus", "string"),
               Entity("Bill", <<Prop("billId", SString), Prop("billStatus", SRef("BillStatus"))>>,
                      {"billId"})>>)
InlineObjectDocument ==
    Document(TRUE, TRUE, TRUE,
             <<Entity("Bill", <<Prop("billId", SString), Prop("address", SObject)>>,
                      {"billId"})>>)
ModelsDocuments == Documents \cup {ScalarComponentDocument, InlineObjectDocument}

ModelsInit ==
    /\ doc \in ModelsDocuments
    /\ pyPc = "initialize" /\ pyDir = NoFiles /\ pySteps = <<>> /\ pyErr = ""
    /\ tsPc = "load" /\ tsDir = NoFiles /\ tsSteps = <<>> /\ tsErr = ""
    /\ tsPending = <<>>
    /\ snapshot = NoSnapshot
    /\ lib = Library
    /\ call = NoCall
    /\ rival = NoRival
ModelsNext == TsLoad \/ TsWriteModels
ModelsSpec == ModelsInit /\ [][ModelsNext]_vars

FairSpec == Spec /\ WF_vars(PyGenerate) /\ WF_vars(TsGenerate)

(***************************************************************************)
(* Properties.                                                             *)
(***************************************************************************)
\* The wire payload of an unmarshal call: the JSON the string holds, or the
\* value itself when it is not a string.
IsString(json) == json.t \in {"json", "text"}
WellFormed(json) == json.t # "text"
PayloadOf(json) == IF json.t = "json" THEN json.wire ELSE json

\* C1: round trip.  For every valid entity value x of a document whose
\* references all resolve, the emitted unmarshaller
\* applied to the emitted marshaller's output succeeds and returns x
\* (Python: from_dict(to_dict(x)); TypeScript: unmarshal(marshal(x))).
C1_RoundTrip ==
    ~Dangling(doc) =>
        /\ call.op = "py_round_trip" =>
              call.res.ok /\ call.res.val = ToInstance(doc, call.name, call.arg.kv)
        /\ call.op = "ts_round_trip" =>
              call.res.ok /\ FromObject(call.res.val) = call.arg

\* C2: a payload that leaves out a required property is rejected by from_wire
\* with a validation error that names the property (Python: ValidationError;
\* TypeScript: VALIDATION_ERROR); no entity is returned and no other kind of
\* error is raised.
AbsentRequired(d, n, kv) == EntityOf(d, n).required \ DOMAIN kv

C2_RequiredFieldRejected ==
    ~Dangling(doc) =>
        /\ (call.op = "from_dict" /\ AbsentRequired(doc, call.name, call.arg.kv) # {}) =>
              /\ ~call.res.ok
              /\ call.res.err = "ValidationError"
              /\ call.res.fields \cap AbsentRequired(doc, call.name, call.arg.kv) # {}
        /\ (call.op = "unmarshal" /\ WellFormed(call.arg)
              /\ AbsentRequired(doc, call.name, PayloadOf(call.arg).kv) # {}) =>
              ~call.res.ok /\ call.res.code = "VALIDATION_ERROR"

C4_ValidateBeforeConstruct ==
    ~Dangling(doc) =>
        /\ (call.op = "from_dict" /\ call.res.ok) =>
              Conforms(doc, call.name, FromInstance(call.res.val).kv, Null, MaxDepth - 1)
        /\ (call.op = "unmarshal" /\ call.res.ok) =>
              Conforms(doc, call.name, FromObject(call.res.val).kv, Undefined, MaxDepth - 1)

\* C5: all or nothing.  When a generation run has ended, by completing or by
\* aborting at any step, the artifact files it wrote for its language are
\* all of them or none.
C5_AllOrNothing ==
    /\ PyEnded => DOMAIN pyDir \in {{}, PyArtifacts}
    /\ TsEnded => DOMAIN tsDir \in {{}, TsArtifacts}

\* C6: schema-load fail-fast.  When the document has no schemas section, each
\* generator stops at its load step: no emission step is executed and no
\* artifact is written.
C6_SchemaLoadFailFast ==
    ~HasSchemasSection(doc) =>
        /\ pyDir = NoFiles /\ Range(pySteps) \subseteq {"initialize"}
        /\ pyPc \in {"initialize", "exited"}
        /\ tsDir = NoFiles /\ Range(tsSteps) \subseteq {"load"}
        /\ tsPc \in {"load", "raised"}

\* C6 witness: a readable document without `schemas`, both generators stopped.
C6_Witness ==
    /\ doc.file /\ ~HasSchemasSection(doc)
    /\ pyPc = "exited" /\ pyErr = "SystemExit"
    /\ tsPc = "raised" /\ tsErr = "KeyError"

\* C7: a dangling reference is fatal.  When a property or array item refers
\* to a name the document does not declare, each generator aborts with
\* UnresolvedReference and writes no artifact.
C7_DanglingReferenceIsFatal ==
    Dangling(doc) =>
        /\ PyEnded => pyPc = "raised" /\ pyErr = "UnresolvedReference" /\ pyDir = NoFiles
        /\ TsEnded => tsPc = "raised" /\ tsErr = "UnresolvedReference" /\ tsDir = NoFiles

\* C8: reference delegation in to_wire.  For every entity and every property
\* that is a reference or an array of references, the emitted to_wire of the
\* entity calls the referenced entity's own to_wire, in both generators.
RefPropsOf(e) ==
    {i \in DOMAIN e.properties : HasRef(e.properties[i].schema) \/ HasItemsRef(e.properties[i].schema)}
TargetOf(s) == IF HasRef(s) THEN s.ref ELSE s.itemsRef

C8_ToWireDelegates ==
    /\ "marshaller.py" \in DOMAIN pyDir =>
          \A n \in Names(doc) : \A i \in RefPropsOf(EntityOf(doc, n)) :
             LET p == EntityOf(doc, n).properties[i]
                 m == MarshallerOf(pyDir["marshaller.py"], n)
             IN  \E j \in DOMAIN m.to_dict :
                    /\ m.to_dict[j].prop = p.name
                    /\ m.to_dict[j].how \in {"one", "each"}
                    /\ m.to_dict[j].ref = TargetOf(p.schema)
    /\ "marshaller.ts" \in DOMAIN tsDir =>
          \A n \in Names(doc) : \A i \in RefPropsOf(EntityOf(doc, n)) :
             \E j \in DOMAIN tsDir["marshaller.ts"] :
                /\ tsDir["marshaller.ts"][j].method = "marshal" \o n
                /\ ("marshal" \o TargetOf(EntityOf(doc, n).properties[i].schema))
                      \in tsDir["marshaller.ts"][j].delegates

\* C9: reference composition.  For a document d2 that differs from this one
\* only in the properties of an entity r, the marshaller and unmarshaller
\* emitted for an entity e that references r are the same in both runs.
WithShape(d, r, shape) ==
    Document(d.file, d.components, d.schemasKey,
             [i \in DOMAIN d.schemas |->
                IF d.schemas[i].name = r
                THEN Entity(r, shape.properties, shape.required)
                ELSE d.schemas[i]])

\* What a Python run on d emits for entity e in marshaller.py.
PyEmittedFor(d, e) ==
    LET r == _generate_marshaller(d)
    IN  IF r.ok THEN Ok(MarshallerOf(r.val, e)) ELSE r

\* What a TypeScript run on d emits for entity e in (un)marshaller.ts.
TsEmittedFor(d, e) ==
    LET i == CHOOSE j \in DOMAIN d.schemas : d.schemas[j].name = e
    IN  <<MarshallerTs(d)[i], UnmarshallerTs(d)[i]>>

C9_ReferenceComposition ==
    \A r \in Names(doc) : \A e \in Names(doc) \ {r} : \A shape \in LeafShapes :
        r \in RefTargets(EntityOf(doc, e)) =>
            /\ "marshaller" \in Range(pySteps) =>
                  PyEmittedFor(WithShape(doc, r, shape), e)
                     = (IF "marshaller.py" \in DOMAIN pyDir
                        THEN Ok(MarshallerOf(pyDir["marshaller.py"], e))
                        ELSE Raise(pyErr))
            /\ {"marshaller.ts", "unmarshaller.ts"} \subseteq DOMAIN tsDir =>
                  TsEmittedFor(WithShape(doc, r, shape), e)
                     = <<tsDir["marshaller.ts"][CHOOSE j \in DOMAIN doc.schemas : doc.schemas[j].name = e],
                         tsDir["unmarshaller.ts"][CHOOSE j \in DOMAIN doc.schemas : doc.schemas[j].name = e]>>

\* C10: cross-language wire compatibility.  For every valid entity value x,
\* what one language's marshaller produces is accepted by the other
\* language's unmarshaller and yields x.
C10_CrossLanguageWire ==
    ~Dangling(doc) =>
        /\ call.op = "py_to_ts" => call.res.ok /\ FromObject(call.res.val) = call.arg
        /\ call.op = "ts_to_py" => call.res.ok /\ FromInstance(call.res.val) = call.arg

FromRequired(d, n, decls) ==
    \A i \in DOMAIN decls : ~decls[i].optional <=> decls[i].name \in EntityOf(d, n).required

C12_OptionalityFromRequired ==
    /\ "models.py" \in DOMAIN pyDir =>
          \A i \in DOMAIN pyDir["models.py"] :
             FromRequired(doc, pyDir["models.py"][i].name, pyDir["models.py"][i].fields)
    /\ "validator.py" \in DOMAIN pyDir =>
          \A i \in DOMAIN pyDir["validator.py"].context :
             LET m == pyDir["validator.py"].context[i]
             IN  FromRequired(doc, m.name,
                              [j \in DOMAIN m.properties |->
                                 [name |-> m.properties[j].name,
                                  optional |-> m.properties[j].type.optional]])
    /\ "models.ts" \in DOMAIN tsDir =>
          \A i \in DOMAIN tsDir["models.ts"].interfaces :
             FromRequired(doc, tsDir["models.ts"].interfaces[i].interface,
                          tsDir["models.ts"].interfaces[i].fields)
    /\ "validator.ts" \in DOMAIN tsDir =>
          \A i \in DOMAIN tsDir["validator.ts"] :
             FromRequired(doc, tsDir["validator.ts"][i].name, tsDir["validator.ts"][i].lazy.fields)

\* C13: one structure per entity, in declaration order.  The emitted models
\* artifact declares exactly one structure for each entity of the document
\* and none for any other name, in the document's order, and the fields of
\* each declaration are the entity's properties in their declared order;
\* whatever the entities are called.
NamesInOrder(d) == [i \in DOMAIN d.schemas |-> d.schemas[i].name]
PropsInOrder(d, n) ==
    [i \in DOMAIN EntityOf(d, n).properties |-> EntityOf(d, n).properties[i].name]

C13_OneStructurePerEntityInOrder ==
    /\ "models.py" \in DOMAIN pyDir =>
          LET classes == pyDir["models.py"]
          IN  /\ [i \in DOMAIN classes |-> classes[i].name] = NamesInOrder(doc)
              /\ \A i \in DOMAIN classes :
                    [j \in DOMAIN classes[i].fields |-> classes[i].fields[j].name]
                       = PropsInOrder(doc, classes[i].name)
    /\ "models.ts" \in DOMAIN tsDir =>
          LET interfaces == tsDir["models.ts"].interfaces
          IN  /\ [i \in DOMAIN interfaces |-> interfaces[i].interface] = NamesInOrder(doc)
              /\ \A i \in DOMAIN interfaces :
                    [j \in DOMAIN interfaces[i].fields |-> interfaces[i].fields[j].name]
                       = PropsInOrder(doc, interfaces[i].interface)

\* C14: validation rule order and fail-fast.  The rules derived from a
\* property are ordered pattern, enum, minimum, maximum, format; the emitted
\* validator applies them in that order and stops at the first rule that
\* fails: the error it reports is that of the earliest failing rule of the
\* property and no rule is evaluated after it.
RuleRank(rule) ==
    CASE rule = "pattern" -> 1 [] rule = "enum" -> 2 [] rule = "minimum" -> 3
      [] rule = "maximum" -> 4 [] rule \in {"date", "date-time"} -> 5

\* The constraints a property carries, by the kind of rule.
ConstraintKinds(schema) ==
    (IF schema.pattern # "" THEN {"pattern"} ELSE {})
    \cup (IF schema.enum # <<>> THEN {"enum"} ELSE {})
    \cup (IF schema.type = "integer" /\ schema.hasMinimum THEN {"minimum"} ELSE {})
    \cup (IF schema.type = "integer" /\ schema.hasMaximum THEN {"maximum"} ELSE {})
    \cup (IF schema.format \in {"date", "date-time"} THEN {schema.format} ELSE {})

C14_RuleOrderFailFast ==
    /\ "validator.py" \in DOMAIN pyDir =>
          \A m \in Range(pyDir["validator.py"].context) :
             /\ \A i, j \in DOMAIN m.validations :
                   (i < j /\ m.validations[i].field = m.validations[j].field) =>
                      RuleRank(m.validations[i].rule) < RuleRank(m.validations[j].rule)
             /\ \A i \in DOMAIN EntityOf(doc, m.name).properties :
                   LET p == EntityOf(doc, m.name).properties[i]
                   IN  {v.rule : v \in {w \in Range(m.validations) : w.field = p.name}}
                          = ConstraintKinds(p.schema)
    /\ (call.op = "validate" /\ ~call.res.ok /\ call.res.rule # "required") =>
          LET field == CHOOSE f \in call.res.fields : TRUE
              schema == (CHOOSE p \in Range(EntityOf(doc, call.name).properties) :
                           p.name = field).schema
              value == call.arg.kv[field]
              last == call.res.evaluated[Len(call.res.evaluated)]
          IN  /\ RuleFails(call.res.rule, schema, value)
              /\ \A k \in ConstraintKinds(schema) :
                    RuleRank(k) < RuleRank(call.res.rule) => ~RuleFails(k, schema, value)
              /\ last = Validation(field, call.res.rule)
              /\ \A i \in 1..(Len(call.res.evaluated) - 1) :
                    LET r == call.res.evaluated[i]
                    IN  ~RuleFails(r.rule,
                                   (CHOOSE p \in Range(EntityOf(doc, call.name).properties) :
                                      p.name = r.field).schema,
                                   call.arg.kv[r.field])

\* C14 witness: the validator was given a value that breaks the pattern, the
\* enum and the format of one property, and reported the pattern.
C14_Witness ==
    /\ call.op = "validate" /\ ~call.res.ok /\ call.res.rule = "pattern"
    /\ \E f \in call.res.fields :
          LET schema == (CHOOSE p \in Range(EntityOf(doc, call.name).properties) :
                           p.name = f).schema
          IN  /\ RuleFails("enum", schema, call.arg.kv[f])
              /\ RuleFails("date", schema, call.arg.kv[f])

\* C15: the date format means exactly YYYY-MM-DD in every language: four
\* digits, a dash, two digits, a dash, two digits, naming a day of the
\* calendar.  Whatever from_wire or the validator accepts carries, in each
\* property declared with format date, such a string; "2024-13-40", the
\* unpadded "2024-1-5" and "2024-01-15x" are rejected.
ExactDate(s) ==
    LET cs == Chars(s)
    IN  /\ Len(cs) = 10
        /\ \A i \in {1, 2, 3, 4, 6, 7, 9, 10} : cs[i] \in Digits
        /\ cs[5] = "-" /\ cs[8] = "-"
        /\ \E y \in NumberAt(cs, 1, 4), m \in NumberAt(cs, 6, 2), d \in NumberAt(cs, 9, 2) :
              IsDate(y[1], m[1], d[1])

DatesExact(d, n, kv) ==
    \A i \in DOMAIN EntityOf(d, n).properties :
       LET p == EntityOf(d, n).properties[i]
       IN  (p.schema.type = "string" /\ p.schema.format = "date"
            /\ p.name \in DOMAIN kv /\ kv[p.name].t = "str") => ExactDate(kv[p.name].s)

C15_DateFormatExact ==
    ~Dangling(doc) =>
        /\ (call.op \in {"from_dict", "validate"} /\ call.res.ok) =>
              DatesExact(doc, call.name, call.arg.kv)
        /\ (call.op = "unmarshal" /\ call.arg.t = "dict" /\ call.res.ok) =>
              DatesExact(doc, call.name, call.arg.kv)

\* C15, per emitted artifact.
C15_PythonModel == (call.op = "from_dict" /\ call.res.ok) => DatesExact(doc, call.name, call.arg.kv)
C15_PythonValidator == (call.op = "validate" /\ call.res.ok) => DatesExact(doc, call.name, call.arg.kv)
C15_Zod ==
    (call.op = "unmarshal" /\ call.arg.t = "dict" /\ call.res.ok) =>
        DatesExact(doc, call.name, call.arg.kv)

\* C16: the date-time format means a full ISO-8601 timestamp with the T
\* separator and an explicit offset or Z, in every language: whatever
\* from_wire or the validator accepts carries such a string in each property
\* declared with format date-time ("2024-01-15 10:00:00" and a timestamp
\* without offset are rejected), and a payload whose timestamp is
\* "2024-01-15T10:00:00Z" or carries an offset is accepted.
ExactDateTime(s) ==
    LET cs == Chars(s)
    IN  /\ Len(cs) \in {20, 25}
        /\ \A i \in {1, 2, 3, 4, 6, 7, 9, 10, 12, 13, 15, 16, 18, 19} : cs[i] \in Digits
        /\ cs[5] = "-" /\ cs[8] = "-" /\ cs[11] = "T" /\ cs[14] = ":" /\ cs[17] = ":"
        /\ \E y \in NumberAt(cs, 1, 4), m \in NumberAt(cs, 6, 2), d \in NumberAt(cs, 9, 2) :
              IsDate(y[1], m[1], d[1])
        /\ \E h \in NumberAt(cs, 12, 2), m \in NumberAt(cs, 15, 2), x \in NumberAt(cs, 18, 2) :
              h[1] < 24 /\ m[1] < 60 /\ x[1] < 60
        /\ IF Len(cs) = 20 THEN cs[20] = "Z"
           ELSE /\ cs[20] \in {"+", "-"} /\ cs[23] = ":"
                /\ \E h \in NumberAt(cs, 21, 2), m \in NumberAt(cs, 24, 2) :
                      h[1] < 24 /\ m[1] < 60

DateTimesExact(d, n, kv) ==
    \A i \in DOMAIN EntityOf(d, n).properties :
       LET p == EntityOf(d, n).properties[i]
       IN  (p.schema.type = "string" /\ p.schema.format = "date-time"
            /\ p.name \in DOMAIN kv /\ kv[p.name].t = "str") => ExactDateTime(kv[p.name].s)

\* A Bill of TimestampDocument with the given timestamp.
Stamped(s) == Dict([k \in {"billId", "createdAt"} |->
                      IF k = "billId" THEN StrV("A") ELSE StrV(s)])

C16_PythonModel ==
    (call.op = "from_dict" /\ call.res.ok) => DateTimesExact(doc, call.name, call.arg.kv)
C16_PythonValidator ==
    (call.op = "validate" /\ call.res.ok) => DateTimesExact(doc, call.name, call.arg.kv)
C16_ZodRejects ==
    (call.op = "unmarshal" /\ call.arg.t = "dict" /\ call.res.ok) =>
        DateTimesExact(doc, call.name, call.arg.kv)
C16_Accepts ==
    (/\ doc = TimestampDocument /\ call.op \in {"from_dict", "validate", "unmarshal"}
     /\ call.name = "Bill"
     /\ call.arg \in {Stamped("2024-01-15T10:00:00Z"), Stamped("2024-01-15T10:00:00+02:00")})
        => call.res.ok

C16_DateTimeFormat ==
    /\ C16_PythonModel
    /\ C16_PythonValidator
    /\ C16_ZodRejects
    /\ C16_Accepts

\* C17: reference-first type mapping, array items included.  In every emitted
\* declaration a property that is a reference is typed as the named entity,
\* and a property that is an array whose items are a reference is typed as a
\* sequence of that named entity, never as a sequence of strings or of
\* unknown values.
PropSchema(d, n, name) ==
    (CHOOSE p \in Range(EntityOf(d, n).properties) : p.name = name).schema

C17_PythonModel ==
    "models.py" \in DOMAIN pyDir =>
       \A c \in Range(pyDir["models.py"]) : \A f \in Range(c.fields) :
          LET schema == PropSchema(doc, c.name, f.name)
          IN  /\ HasRef(schema) => f.type = PyType("ref", schema.ref)
              /\ HasItemsRef(schema) => f.type = PyType("listref", schema.itemsRef)
C17_PythonContext ==
    "validator.py" \in DOMAIN pyDir =>
       \A m \in Range(pyDir["validator.py"].context) : \A f \in Range(m.properties) :
          LET schema == PropSchema(doc, m.name, f.name)
          IN  /\ HasRef(schema) => f.type.type = PyType("ref", schema.ref)
              /\ HasItemsRef(schema) => f.type.type = PyType("listref", schema.itemsRef)
C17_TsInterface ==
    "models.ts" \in DOMAIN tsDir =>
       \A c \in Range(tsDir["models.ts"].interfaces) : \A f \in Range(c.fields) :
          LET schema == PropSchema(doc, c.interface, f.name)
          IN  /\ HasRef(schema) => f.type = TsType("ref", schema.ref, "")
              /\ HasItemsRef(schema) => f.type = TsType("array", schema.itemsRef, "ref")
C17_Zod ==
    "validator.ts" \in DOMAIN tsDir =>
       \A c \in Range(tsDir["validator.ts"]) : \A f \in Range(c.lazy.fields) :
          LET schema == PropSchema(doc, c.name, f.name)
          IN  /\ HasRef(schema) => (f.schema.z = "ref" /\ f.schema.ref = schema.ref)
              /\ HasItemsRef(schema) => (f.schema.z = "array" /\ f.schema.item.z = "ref")

C17_ReferenceFirstMapping ==
    /\ C17_PythonModel
    /\ C17_PythonContext
    /\ C17_TsInterface
    /\ C17_Zod

\* C18: termination on forward and circular references.  For every document,
\* those whose references form a cycle, refer to the entity itself or to an
\* entity declared later included, each generator eventually ends: it has
\* returned or raised.
C18_Termination == <>(PyEnded /\ TsEnded)

\* C18 witness: both generators have completed on a document with a cycle
\* of references.
C18_Witness ==
    /\ doc \in {CyclicDocument, SelfReferenceDocument}
    /\ pyPc = "done" /\ tsPc = "done"

\* C19: sequencing invariant.  For any order of the entities in the document
\* (all references resolving), every entity name a model, validator or
\* marshaller uses is declared in the emitted artifacts of its language, and
\* where the name is bound when the declaration runs (the annotations of a
\* Python class body) the referenced declaration comes before the use.
C19_PythonModels ==
    "models.py" \in DOMAIN pyDir =>
       \A i \in DOMAIN pyDir["models.py"] :
          AnnotationNames(pyDir["models.py"][i])
             \subseteq {pyDir["models.py"][j].name : j \in 1..(i - 1)}
C19_PythonMarshaller ==
    {"models.py", "marshaller.py"} \subseteq DOMAIN pyDir =>
       \A c \in Range(pyDir["marshaller.py"]) :
          \A a \in Range(c.from_dict) \cup Range(c.to_dict) :
             a.ref # "" =>
                /\ a.ref \in {k.name : k \in Range(pyDir["marshaller.py"])}
                /\ a.ref \in {k.name : k \in Range(pyDir["models.py"])}
C19_TypeScript ==
    /\ "models.ts" \in DOMAIN tsDir =>
          \A c \in Range(tsDir["models.ts"].interfaces) : \A f \in Range(c.fields) :
             (f.type.k = "ref" \/ (f.type.k = "array" /\ f.type.itemK = "ref")) =>
                f.type.n \in {k.interface : k \in Range(tsDir["models.ts"].interfaces)}
    /\ "validator.ts" \in DOMAIN tsDir =>
          \A c \in Range(tsDir["validator.ts"]) : \A f \in Range(c.lazy.fields) :
             f.schema.z = "ref" =>
                f.schema.ref \in {k.name : k \in Range(tsDir["validator.ts"])}

C19_SequencingInvariant ==
    ~Dangling(doc) =>
        /\ C19_PythonModels
        /\ C19_PythonMarshaller
        /\ C19_TypeScript

\* C20: determinism.  A second generation run over the same document leaves
\* every artifact with the contents the first run gave it, and within a run
\* a schema node is mapped to the same type expression each time it is
\* mapped: the type a property has in the Python model class is the type it
\* has in the context rendered into validator.py and common.py.
C20_SameOutput ==
    (snapshot # NoSnapshot /\ PyEnded /\ TsEnded) =>
        (pyDir = snapshot.py /\ tsDir = snapshot.ts)
C20_SameExpression ==
    {"models.py", "validator.py"} \subseteq DOMAIN pyDir =>
       \A c \in Range(pyDir["models.py"]) : \A f \in Range(c.fields) :
          \A m \in Range(pyDir["validator.py"].context) : \A g \in Range(m.properties) :
             (m.name = c.name /\ g.name = f.name) =>
                 (g.type.type = f.type /\ g.type.optional = f.optional)

C20_Determinism ==
    /\ C20_SameOutput
    /\ C20_SameExpression

\* C21: data-driven emission.  Renaming the entities and properties of the
\* document consistently renames the emitted models, marshaller and
\* validator in the same way and changes nothing else: what a generator
\* emits for the renamed document is what it emitted for the document, with
\* the names replaced.
Rho(n) ==
    CASE n = "Bill" -> "Invoice"
      [] n = "BillEvent" -> "InvoiceEvent"
      [] n = "OrderEvent" -> "PurchaseEvent"
      [] n = "lineItems" -> "entries"
      [] n = "billId" -> "invoiceId"
      [] n = "bill" -> "invoice"
      [] OTHER -> n

RenamedSchema(s) == [s EXCEPT !.ref = Rho(@), !.itemsRef = Rho(@)]
RenamedEntity(e) ==
    [e EXCEPT !.name = Rho(@),
              !.properties = [i \in DOMAIN @ |-> Prop(Rho(@[i].name), RenamedSchema(@[i].schema))],
              !.required = {Rho(r) : r \in @}]
RenamedDocument(d) == [d EXCEPT !.schemas = [i \in DOMAIN @ |-> RenamedEntity(@[i])]]

RenamedPyType(t) == IF t.k \in {"ref", "listref"} THEN PyType(t.k, Rho(t.n)) ELSE t
RenamedModels(classes) ==
    [i \in DOMAIN classes |->
        [name |-> Rho(classes[i].name),
         fields |-> [j \in DOMAIN classes[i].fields |->
                       [classes[i].fields[j] EXCEPT !.name = Rho(@), !.type = RenamedPyType(@)]],
         validators |-> {Rho(v) : v \in classes[i].validators}]]
RenamedArgs(args) ==
    [j \in DOMAIN args |-> [args[j] EXCEPT !.prop = Rho(@), !.ref = Rho(@)]]
RenamedMarshaller(ms) ==
    [i \in DOMAIN ms |->
        [name |-> Rho(ms[i].name), from_dict |-> RenamedArgs(ms[i].from_dict),
         to_dict |-> RenamedArgs(ms[i].to_dict)]]
RenamedValidatorTs(vs) ==
    [i \in DOMAIN vs |->
        [name |-> Rho(vs[i].name),
         lazy |-> [vs[i].lazy EXCEPT
                     !.fields = [j \in DOMAIN @ |->
                                   [@[j] EXCEPT !.name = Rho(@),
                                                !.schema = IF @.z = "ref"
                                                           THEN [@ EXCEPT !.ref = Rho(@)]
                                                           ELSE @]]]]]

C21_PythonModels ==
    ("models.py" \in DOMAIN pyDir /\ ~Dangling(doc)) =>
        _generate_models(RenamedDocument(doc)) = Ok(RenamedModels(pyDir["models.py"]))
C21_PythonMarshaller ==
    ("marshaller.py" \in DOMAIN pyDir /\ ~Dangling(doc)) =>
        _generate_marshaller(RenamedDocument(doc)) = Ok(RenamedMarshaller(pyDir["marshaller.py"]))
C21_Zod ==
    ("validator.ts" \in DOMAIN tsDir /\ ~Dangling(doc)) =>
        ValidatorTs(RenamedDocument(doc)) = RenamedValidatorTs(tsDir["validator.ts"])

C21_DataDrivenEmission ==
    /\ C21_PythonModels
    /\ C21_PythonMarshaller
    /\ C21_Zod

\* C22: runtime errors are surfaced.  Whenever the conversion inside a
\* generated wrapper (publish, handle_event, parse_event, validate_event)
\* fails, the wrapper's caller gets an error: no wrapper returns normally
\* after to_dict or from_dict raised.
C22_RuntimeErrorsSurfaced ==
    (call.op = "wrapper" /\ ~call.mid.conversion.ok) => ~call.res.ok

\* C22, for the wrappers generate() writes.
C22_WrittenWrappers ==
    (/\ call.op = "wrapper" /\ ~call.mid.conversion.ok
     /\ call.mid.wrapper.emitter \in {"_generate_event_publisher", "_generate_event_consumer"})
        => ~call.res.ok

\* The files a run of generate() on document d writes when no step raises.
RunOutput(d) == [f \in PyArtifacts |->
                   PyEmit(CHOOSE st \in Range(PySequence) : PyFile(st) = f, d).val]
BothDone == pyPc = "done" /\ rival.pc = "done"

\* C23: concurrent runs on one output location.  When two generation runs
\* that wrote to the same directory have both finished, the directory holds
\* the complete artifact set of one of the two runs, never a mix of files
\* from both.
C23_SingleRunOutput ==
    BothDone => pyDir \in {RunOutput(doc), RunOutput(rival.doc)}

\* C23: the writes of two runs are serialized: while one run is between its
\* first and its last write, the other writes nothing.
C23_Serialized ==
    [][~(/\ pyPc \in Range(PySequence) \ {"models"}
         /\ rival.pc \in Range(PySequence) \ {"models"}
         /\ pyDir' # pyDir)]_vars

\* C24: the loaded document is read-only.  No step of either generator
\* (model, publisher/consumer, marshaller, validator emission, template
\* context building) and no call into the emitted code changes the document:
\* every step leaves it as it was loaded, so it is equal before and after a
\* complete run.
C24_DocumentReadOnly == [][doc' = doc]_vars

\* Both generators have run to completion on a document with entities.
C24_Witness ==
    /\ pyPc = "done" /\ tsPc = "done"
    /\ Len(doc.schemas) > 1
    /\ PyArtifacts \subseteq DOMAIN pyDir /\ TsArtifacts \subseteq DOMAIN tsDir

\* The array-typed properties of entity n whose value in x is an empty array.
EmptyArrays(d, n, x) ==
    {p.name : p \in {q \in Range(EntityOf(d, n).properties) :
                       /\ q.schema.type = "array"
                       /\ q.name \in DOMAIN x.kv
                       /\ x.kv[q.name] = List(<<>>)}}

DeclaredTypes(models) ==
    {"ISO8601DateTime", "UUID"} \cup
    {models.interfaces[i].interface : i \in DOMAIN models.interfaces}

\* The type names a field type uses: a referenced name, the name synthesized
\* for an inline object, or either as the element of an array.
NamesOfType(t) ==
    IF t.k \in {"ref", "name"} \/ (t.k = "array" /\ t.itemK \in {"ref", "name"})
    THEN {t.n} ELSE {}
FieldTypeNames(models) ==
    UNION {UNION {NamesOfType(models.interfaces[i].fields[j].type) :
                    j \in DOMAIN models.interfaces[i].fields} :
             i \in DOMAIN models.interfaces}
GuardTargets(models) == {models.guards[i].target : i \in DOMAIN models.guards}

\* C26, type guards: the `obj is <Name>` target of every type guard of
\* models.ts is declared in models.ts.
C26_GuardTargetsDeclared ==
    "models.ts" \in DOMAIN tsDir =>
        GuardTargets(tsDir["models.ts"]) \subseteq DeclaredTypes(tsDir["models.ts"])

\* C26, field types of documents whose references all name a component: every
\* name used as a field type of models.ts is declared in models.ts.
C26_FieldTypesDeclared ==
    ("models.ts" \in DOMAIN tsDir /\ ~Dangling(doc)) =>
        FieldTypeNames(tsDir["models.ts"]) \subseteq DeclaredTypes(tsDir["models.ts"])

\* C26: every type name that appears in models.ts, as a field type (the name
\* synthesized for an inline object property included) or as the target of a
\* type guard, is declared in models.ts.
C26_TypeNamesDeclared ==
    "models.ts" \in DOMAIN tsDir =>
        (FieldTypeNames(tsDir["models.ts"]) \cup GuardTargets(tsDir["models.ts"]))
            \subseteq DeclaredTypes(tsDir["models.ts"])

\* C27: marshal<Entity> validates before serializing.  It returns a JSON
\* string, the text of the data, only when the entity's emitted schema accepts
\* the data; when the schema rejects the data it throws VALIDATION_ERROR and
\* returns nothing; any other failure is thrown as MARSHAL_ERROR; it never
\* throws PARSE_ERROR or UNMARSHAL_ERROR.
C27_MarshalValidatesFirst ==
    call.op = "marshal" =>
        LET parsed == ZodParse(tsDir["validator.ts"], call.name, call.arg)
            rejected == ~parsed.ok /\ parsed.err = "ZodError"
            broken == ~parsed.ok /\ parsed.err # "ZodError"
        IN  /\ call.res.ok <=> ~rejected /\ ~broken
            /\ call.res.ok => call.res.val.t = "json" /\ call.res.val.wire = Jsonable(call.arg)
            /\ ~call.res.ok =>
                  /\ call.res.err = "SchemaRegistryError"
                  /\ call.res.code \in {"VALIDATION_ERROR", "MARSHAL_ERROR"}
                  /\ call.res.code = "VALIDATION_ERROR" <=> rejected
                  /\ call.res.code = "MARSHAL_ERROR" <=> broken

\* C27 witness: marshal<Entity> has thrown VALIDATION_ERROR for an object the
\* schema rejects, under a document whose references all resolve.
C27_Witness ==
    /\ ~Dangling(doc)
    /\ call.op = "marshal" /\ call.arg.t = "dict"
    /\ ~call.res.ok /\ call.res.code = "VALIDATION_ERROR"

\* A from_dict call of an importable marshaller on a payload that carries a
\* valid value for every required property and valid values, or nothing, for
\* the others (no property is set to None).
OmittingCall ==
    /\ call.op = "from_dict"
    /\ ImportModels(pyDir["models.py"]).ok
    /\ NoNil(call.arg, Null)
    /\ Conforms(doc, call.name, call.arg.kv, Null, MaxDepth - 1)
Omitted(d, n, x) == {p.name : p \in Range(EntityOf(d, n).properties)} \ DOMAIN x.kv

\* C28, the empty mapping: from_dict accepts {} for an entity with no
\* required property.
C28_EmptyMapping ==
    (OmittingCall /\ call.arg.kv = EmptyKV) => call.res.ok

\* C28: optional properties may be omitted.  For every entity, from_dict
\* succeeds on every payload that carries valid values for all required
\* properties and omits any subset of the non-required ones (reference
\* properties and the empty mapping included), and every omitted property is
\* None in the entity returned.
C28_OptionalMayBeOmitted ==
    OmittingCall =>
        /\ call.res.ok
        /\ \A k \in Omitted(doc, call.name, call.arg) : call.res.val.fields[k] = Null

====
